---- MODULE Spec2Model ----
(***************************************************************************)
(* faf, CoredumpProblem (src/src/pyfaf/problemtypes/core.py): storing a    *)
(* coredump uReport (save_ureport) and retracing symbol sources (retrace). *)
(*                                                                         *)
(* Stored objects are kept in sequences, an object's identity being its    *)
(* index: symbols (Symbol), ssources (SymbolSource, the spec's             *)
(* CanonicalLocation), threads (ReportBtThread with its frames             *)
(* collection), backtraces and reports.  A Python None / absent dict key   *)
(* is NoVal for strings, NoSym for a symbol reference and NoLine for a     *)
(* line number.                                                            *)
(***************************************************************************)
EXTENDS Integers, Sequences, FiniteSets, TLC

\* ------------------------------------------------------------------ bounds
\* the work of a run: one unit per save_ureport call and per location retraced
MaxWork == 3
\* the frames a stored thread may grow to
MaxThreadFrames == 12
MaxReports == 2

\* --------------------------------------------------------- program constants
\* fid += 10: the stride between the order values of ingested frames
Stride == 10

NoVal == "(none)"
NoSym == 0
NoLine == -1

\* ------------------------------------------------------------ small helpers
Min(S) == CHOOSE x \in S : \A y \in S : x <= y

Last(s) == s[Len(s)]

Front(s) == SubSeq(s, 1, Len(s) - 1)

\* list.reverse()
Reverse(s) == [i \in 1..Len(s) |-> s[Len(s) + 1 - i]]

\* ------------------------------------------------------- path conversions
\* os.path.abspath on the file names the model feeds in: an absolute name is
\* normalised (a doubled separator collapses), a relative one is joined to the
\* working directory.
AbsPath(p) ==
    CASE p = "/usr/lib//libc.so.6" -> "/usr/lib/libc.so.6"
      [] p = "unknown filename" -> "/cwd/unknown filename"
      [] OTHER -> p

\* pyfaf.common.get_libname: the base name, cut after ".so"
GetLibname(p) ==
    CASE p = "/usr/lib/libc.so.6" -> "libc.so"
      [] p = "/lib/libc.so.6" -> "libc.so"
      [] p = "/usr/bin/app" -> "app"
      [] p = "/cwd/unknown filename" -> "unknown filename"
      [] OTHER -> p

\* pyfaf.retrace.demangle: c++filt, which leaves a name that is not mangled
Demangle(n) ==
    CASE n = "_Z1gv" -> "g()"
      [] OTHER -> n

\* ------------------------------------------------------------------- state
VARIABLES
    symbols,      \* Symbol objects: [name, normalized_path, nice_name]
    ssources,     \* SymbolSource objects (CanonicalLocation)
    threads,      \* ReportBtThread objects, each with its frames collection
    backtraces,   \* ReportBacktrace objects: [report, hashes]
    reports,      \* Report objects: [errname]
    reportexes,   \* ReportExecutable objects: [report, path, count]
    flushed,      \* what a query sees: [sym, ss, exe], sets of flushed objects
    session,      \* per unit of work: the objects it added and has not flushed
    rt,           \* the position of the retrace call in progress, its task and locals
    staged,       \* unpacked package directories present on disk
    calls,        \* [save, retrace, locs]: calls made and locations retraced so far
    last,         \* what the last step did (history, read by the properties only)
    raw,          \* the raw report handed to validate_ureport and the hashers
    answer,       \* what the last call on raw gave back: [op, status, value]
    normalize     \* self.normalize, the setting processing.corenormalize

vars == <<symbols, ssources, threads, backtraces, reports, reportexes,
          flushed, session, rt, staged, calls, last, raw, answer, normalize>>

\* The objects of the store and the calls that work on them, with the
\* plugin's setting, which no call changes
storeVars == <<symbols, ssources, threads, backtraces, reports, reportexes,
               flushed, session, rt, staged, calls, last, normalize>>

\* The raw report under validation and hashing, with the plugin's setting
reportVars == <<raw, answer, normalize>>

Units == {1, 2}

\* ------------------------------------------------------------ storage layer
\* A dict of the handler (new_symbols, new_symbolsources): a set of
\* [key, val] entries with pairwise different keys.
DictHas(d, k) == \E e \in d : e.key = k

DictGet(d, k) == (CHOOSE e \in d : e.key = k).val

DictPut(d, k, v) == {e \in d : e.key # k} \cup {[key |-> k, val |-> v]}

\* pyfaf.queries.get_symbol_by_name_path: the flushed Symbol with this name
\* and normalized path, None (NoSym) when there is none
GetSymbolByNamePath(syms, vis, name, norm_path) ==
    LET m == {i \in vis : /\ syms[i].name = name
                          /\ syms[i].normalized_path = norm_path}
    IN IF m = {} THEN NoSym ELSE Min(m)

\* pyfaf.queries.get_ssource_by_bpo: the flushed SymbolSource with this
\* (build_id, path, offset), None (0) when there is none
GetSsourceByBpo(sss, vis, build_id, path, offset) ==
    LET m == {i \in vis : /\ sss[i].build_id = build_id
                          /\ sss[i].path = path
                          /\ sss[i].offset = offset}
    IN IF m = {} THEN 0 ELSE Min(m)

\* pyfaf.queries.get_reportexe
GetReportexe(exes, vis, report, path) ==
    LET m == {i \in vis : exes[i].report = report /\ exes[i].path = path}
    IN IF m = {} THEN 0 ELSE Min(m)

\* Symbol() with name and normalized_path set
NewSymbol(name, norm_path) ==
    [name |-> name, normalized_path |-> norm_path, nice_name |-> NoVal]

\* The lookup of a Symbol by (name, normalized path): the store first, then
\* the handler's new_symbols dict, then a new object entered in the dict.
\* st carries symbols and newSym; the result adds sym, the symbol found.
GetOrCreateSymbol(st, vis, name, norm_path) ==
    LET q == GetSymbolByNamePath(st.symbols, vis, name, norm_path)
        key == <<name, norm_path>>
        id == Len(st.symbols) + 1
    IN IF q # NoSym THEN [st EXCEPT !.sym = q]
       ELSE IF DictHas(st.newSym, key)
            THEN [st EXCEPT !.sym = DictGet(st.newSym, key)]
            ELSE [st EXCEPT !.symbols = Append(@, NewSymbol(name, norm_path)),
                            !.newSym = DictPut(@, key, id),
                            !.sym = id]

\* SymbolSource() as save_ureport fills it
NewSymbolSource(symbol, build_id, path, offset, hash) ==
    [symbol |-> symbol, build_id |-> build_id, path |-> path,
     offset |-> offset, hash |-> hash, source_path |-> NoVal,
     line_number |-> NoLine, retrace_fail_count |-> 0]

\* The lookup of a SymbolSource in save_ureport: the store, then
\* new_symbolsources, then a new object.  The result sets ss.
SaveGetOrCreateSsource(st, vis, symbol, build_id, path, offset, hash) ==
    LET q == GetSsourceByBpo(st.ssources, vis, build_id, path, offset)
        key == <<build_id, path, offset>>
        id == Len(st.ssources) + 1
    IN IF q # 0 THEN [st EXCEPT !.ss = q]
       ELSE IF DictHas(st.newSs, key)
            THEN [st EXCEPT !.ss = DictGet(st.newSs, key)]
            ELSE [st EXCEPT !.ssources =
                                Append(@, NewSymbolSource(symbol, build_id, path,
                                                          offset, hash)),
                            !.newSs = DictPut(@, key, id),
                            !.ss = id]

\* All frames stored so far; a new frame's id is one more.
RECURSIVE CountFrames(_)
CountFrames(thr) ==
    IF thr = <<>> THEN 0 ELSE Len(Last(thr).frames) + CountFrames(Front(thr))

\* ------------------------------------------------------------- raw reports
\* A raw frame is [address, build_id, build_id_offset, file_name, fingerprint,
\* function_name]; a key the dict does not carry is NoVal (NoInt for the two
\* integers).  A raw thread is [crash_thread, frames], crash_thread being
\* "True", "False" or NoVal.
NoInt == -1

\* The keys without the one every checked frame carries
HashKeysNoOffset == <<"function_name", "fingerprint">>

\* for key in ["function_name", "fingerprint", "build_id_offset"]
HashKeys == <<"function_name", "fingerprint", "build_id_offset">>

\* key in f
FrameHas(f, key) ==
    CASE key = "function_name" -> f.function_name # NoVal
      [] key = "fingerprint" -> f.fingerprint # NoVal
      [] key = "build_id_offset" -> f.build_id_offset # NoInt

\* "{0}".format(f[key])
KeyText(f, key) ==
    CASE key = "function_name" -> f.function_name
      [] key = "fingerprint" -> f.fingerprint
      [] key = "build_id_offset" -> ToString(f.build_id_offset)

\* "crash_thread" in thread and thread["crash_thread"]
IsCrashThread(t) == t.crash_thread = "True"

\* The test made on the crash thread alone
KeyUsableCrashOnly(bt, key) ==
    \A i \in 1..Len(bt) :
        IsCrashThread(bt[i]) =>
            \A j \in 1..Len(bt[i].frames) : FrameHas(bt[i].frames[j], key)

\* all(key in f for f in thread["frames"]) for every thread
KeyUsable(bt, key) ==
    \A i \in 1..Len(bt) :
        \A j \in 1..Len(bt[i].frames) : FrameHas(bt[i].frames[j], key)

\* One line of the hash base: a thread header, or
\* "  {0} @ {1} ({2})".format(frame[key], file_name, build_id)
HeaderLine(t) ==
    [indent |-> 0,
     text |-> IF IsCrashThread(t) THEN "Crash Thread" ELSE "Thread",
     file |-> "", build_id |-> ""]

FrameLine(f, key) ==
    [indent |-> 2, text |-> KeyText(f, key), file |-> f.file_name,
     build_id |-> IF f.build_id # NoVal THEN f.build_id ELSE "None"]

ThreadLines(t, key) ==
    <<HeaderLine(t)>> \o [j \in 1..Len(t.frames) |-> FrameLine(t.frames[j], key)]

RECURSIVE HashBase(_, _)
HashBase(bt, key) ==
    IF bt = <<>> THEN <<>>
    ELSE HashBase(Front(bt), key) \o ThreadLines(Last(bt), key)

\* pyfaf.utils.hash.hash_list: the digest of the joined lines, a value that
\* two lists share only when they are the same list
HashList(lines) == [sha1 |-> lines]

RECURSIVE HashBacktraceFrom(_, _)
HashBacktraceFrom(bt, k) ==
    IF k > Len(HashKeys) THEN <<>>
    ELSE (IF KeyUsable(bt, HashKeys[k])
          THEN <<HashList(HashBase(bt, HashKeys[k]))>>
          ELSE <<>>) \o HashBacktraceFrom(bt, k + 1)

\* A hasher that falls back to the hash of nothing
HashBacktraceNeverEmpty(bt) ==
    IF HashBacktraceFrom(bt, 1) = <<>> THEN <<HashList(<<>>)>>
    ELSE HashBacktraceFrom(bt, 1)

\* _hash_backtrace: one hash per key that every frame of every thread carries
HashBacktrace(bt) == HashBacktraceFrom(bt, 1)

\* _hash_backtrace reads frame["file_name"] of every frame once a key is
\* usable: a frame without file_name raises KeyError there
BacktraceKeyError(bt) ==
    /\ \E k \in 1..Len(HashKeys) : KeyUsable(bt, HashKeys[k])
    /\ \E i \in 1..Len(bt) : \E j \in 1..Len(bt[i].frames) :
           bt[i].frames[j].file_name = NoVal

\* ------------------------------------------------------------ save_ureport
\* frame["file_name"] and frame["build_id_offset"] are read without a test
\* for the key: a frame that lacks one of them raises KeyError.  The frames
\* that reach these lines have passed _hash_backtrace, which has read the
\* file_name of each.
FrameKeyError(frame) ==
    frame.file_name = NoVal \/ frame.build_id_offset = NoInt

\* One frame of the loop of save_ureport, first part: fid += 10, the reads
\* of the frame's keys and the symbol (get_symbol_by_name_path is asked only
\* for a frame that has a function_name).  Once the KeyError is raised
\* (st.keyerror) nothing more is done.
SaveFrameSymbol(st, vis, frame) ==
    IF st.keyerror THEN st
    ELSE IF FrameKeyError(frame)
    THEN [st EXCEPT !.fid = @ + Stride, !.keyerror = TRUE]
    ELSE IF frame.function_name # NoVal
    THEN [GetOrCreateSymbol(st, vis.sym, frame.function_name,
                            GetLibname(AbsPath(frame.file_name)))
              EXCEPT !.fid = @ + Stride]
    ELSE [st EXCEPT !.sym = NoSym, !.fid = @ + Stride]

\* Second part: get_ssource_by_bpo ... db.session.add(db_frame), with the
\* symbol st.sym of the first part.
SaveFrameSsource(st, vis, frame) ==
    IF st.keyerror THEN st
    ELSE LET s2 == SaveGetOrCreateSsource(st, vis.ss, st.sym, frame.build_id,
                                          AbsPath(frame.file_name),
                                          frame.build_id_offset,
                                          frame.fingerprint)
         IN [s2 EXCEPT !.frames = Append(@, [id |-> s2.nextId,
                                             order |-> s2.fid,
                                             inlined |-> FALSE,
                                             symbolsource |-> s2.ss]),
                       !.nextId = @ + 1]

\* One frame of the loop of save_ureport (fid += 10 ... db.session.add(db_frame)).
SaveFrame(st, vis, frame) ==
    SaveFrameSsource(SaveFrameSymbol(st, vis, frame), vis, frame)

RECURSIVE SaveFrames(_, _, _)
SaveFrames(st, vis, frames) ==
    IF frames = <<>> THEN st
    ELSE SaveFrame(SaveFrames(st, vis, Front(frames)), vis, Last(frames))

\* One thread of the loop of save_ureport: the ReportBtThread and its
\* frames, those before the KeyError if a frame raises it; no thread after
\* the KeyError.
SaveThread(st, vis, bt, thread) ==
    IF st.keyerror THEN st
    ELSE LET s1 == SaveFrames([st EXCEPT !.tid = @ + 1, !.fid = 0,
                                         !.frames = <<>>],
                              vis, thread.frames)
         IN [s1 EXCEPT !.threads = Append(@, [backtrace |-> bt,
                                              number |-> s1.tid,
                                              crashthread |-> IsCrashThread(thread),
                                              frames |-> s1.frames])]

RECURSIVE SaveThreads(_, _, _, _)
SaveThreads(st, vis, bt, stacktrace) ==
    IF stacktrace = <<>> THEN st
    ELSE SaveThread(SaveThreads(st, vis, bt, Front(stacktrace)), vis, bt,
                    Last(stacktrace))

\* db_report.backtraces: the backtraces of report r
ReportBacktraces(bts, r) == {b \in 1..Len(bts) : bts[b].report = r}

\* db_report.errname = str(ureport["signal"])
SaveErrname(db, r, ureport) ==
    [db EXCEPT !.reports[r].errname = ToString(ureport.signal),
               !.raised = FALSE, !.keyerror = FALSE]

\* The ReportExecutable, looked up with get_reportexe or created with
\* count 0, and its counter
SaveReportexe(db, vis, r, ureport, count) ==
    LET q == GetReportexe(db.reportexes, vis.exe, r, ureport.executable)
        exeId == IF q = 0 THEN Len(db.reportexes) + 1 ELSE q
        exes0 == IF q = 0
                 THEN Append(db.reportexes, [report |-> r,
                                             path |-> ureport.executable,
                                             count |-> 0])
                 ELSE db.reportexes
    IN [db EXCEPT !.reportexes = [exes0 EXCEPT ![exeId].count = @ + count]]

\* save_ureport up to the optional flush.  db is the record of the stored
\* objects; the result is that record after the call, with raised (the
\* FafError "Unable to get backtrace hash") and keyerror: the KeyError of
\* _hash_backtrace, which leaves the errname and the executable record, or
\* that of a frame of the loop, which leaves what was added before it.
SaveUreportBody(db, vis, r, ureport, count) ==
    LET d1 == SaveReportexe(SaveErrname(db, r, ureport), vis, r, ureport,
                            count)
        bthashes == HashBacktrace(ureport.stacktrace)
        btId == Len(db.backtraces) + 1
        st0 == [symbols |-> db.symbols, ssources |-> db.ssources,
                threads |-> db.threads, newSym |-> {}, newSs |-> {},
                tid |-> 0, fid |-> 0, frames |-> <<>>,
                nextId |-> CountFrames(db.threads) + 1, sym |-> NoSym, ss |-> 0,
                keyerror |-> FALSE]
        st1 == SaveThreads(st0, vis, btId, ureport.stacktrace)
    IN IF BacktraceKeyError(ureport.stacktrace)
       THEN [d1 EXCEPT !.keyerror = TRUE]
       ELSE IF bthashes = <<>> THEN [d1 EXCEPT !.raised = TRUE]
       ELSE IF ReportBacktraces(db.backtraces, r) # {} THEN d1
       ELSE [d1 EXCEPT !.backtraces = Append(@, [report |-> r,
                                                 hashes |-> bthashes]),
                       !.symbols = st1.symbols,
                       !.ssources = st1.ssources,
                       !.threads = st1.threads,
                       !.keyerror = st1.keyerror]

\* ----------------------------------------------------------------- retrace
\* A resolver answer (addr2line) is a sequence of entries
\* [funcname, srcfile, srcline]; srcline is NoLine when the entry has none.

\* db_ssource.retrace_fail_count += 1; continue
FailLocationTwice(sss, S) ==
    [sss EXCEPT ![S].retrace_fail_count = @ + 2]

FailLocation(sss, S) ==
    [sss EXCEPT ![S].retrace_fail_count = @ + 1]

\* sorted(thread.frames, key=order).index(frame), for the frame at position k
\* of the collection lst: sorted() is stable, so the frame follows the frames
\* of lower order and those of equal order that precede it in the collection
SortedIndex(lst, k) ==
    Cardinality({j \in 1..Len(lst) :
                    \/ lst[j].order < lst[k].order
                    \/ lst[j].order = lst[k].order /\ j < k})

\* The frames referencing ssource S whose id is above lastId, as <<thread,
\* position>> pairs: what the loop over db_ssource.frames has yet to visit.
FramesToVisit(thr, S, lastId) ==
    {c \in UNION {{<<t, k>> : k \in 1..Len(thr[t].frames)} : t \in 1..Len(thr)} :
        /\ thr[c[1]].frames[c[2]].symbolsource = S
        /\ thr[c[1]].frames[c[2]].id > lastId}

\* The frame the loop over db_ssource.frames visits next: the one of lowest
\* id among cand
NextFrame(thr, cand) ==
    CHOOSE x \in cand :
        \A y \in cand : thr[x[1]].frames[x[2]].id <= thr[y[1]].frames[y[2]].id

\* if idx > 0: prevframe = db_frame.thread.frames[idx - 1]; prevframe.inlined
\* and prevframe.symbolsource == db_ssource_inl.  idx is an index into the
\* sorted list, lst the collection as it is.
SkipFrame(lst, idx, inl) ==
    /\ idx > 0
    /\ lst[idx].inlined
    /\ lst[idx].symbolsource = inl

\* A new frame that is not told apart from the frames of the raw thread
NewFrameNotInlined(id, f, inl, inl_id) ==
    [id |-> id, order |-> f.order - inl_id, inlined |-> FALSE,
     symbolsource |-> inl]

\* db_newframe = ReportBtFrame() and its four assignments, for frame f
NewInlinedFrame(id, f, inl, inl_id) ==
    [id |-> id, order |-> f.order - inl_id, inlined |-> TRUE,
     symbolsource |-> inl]

\* for db_frame in db_ssource.frames: ... db.session.add(db_newframe)
\* The collection is read as the loop goes: a frame the loop adds to S itself
\* is visited too.  overflow: a thread would exceed MaxThreadFrames.
RECURSIVE FrameLoop(_, _, _, _, _)
\* The body of the loop for the frame at position k of thread t
FrameLoopBody(thr, S, inl, inl_id, t, k) ==
    IF SkipFrame(thr[t].frames, SortedIndex(thr[t].frames, k), inl)
    THEN FrameLoop(thr, S, inl, inl_id, thr[t].frames[k].id)
    ELSE IF Len(thr[t].frames) >= MaxThreadFrames
         THEN [threads |-> thr, overflow |-> TRUE]
         ELSE FrameLoop([thr EXCEPT ![t].frames =
                             Append(@, NewInlinedFrame(CountFrames(thr) + 1,
                                                       thr[t].frames[k],
                                                       inl, inl_id))],
                        S, inl, inl_id, thr[t].frames[k].id)

\* The loop goes on with the frame at c = <<thread, position>>
FrameLoopAt(thr, S, inl, inl_id, c) ==
    FrameLoopBody(thr, S, inl, inl_id, c[1], c[2])

FrameLoop(thr, S, inl, inl_id, lastId) ==
    IF FramesToVisit(thr, S, lastId) = {}
    THEN [threads |-> thr, overflow |-> FALSE]
    ELSE FrameLoopAt(thr, S, inl, inl_id,
                     NextFrame(thr, FramesToVisit(thr, S, lastId)))

\* The SymbolSource of an inlined entry e of the answer for ssource S: the
\* store, then new_symbolsources, then a new object with its Symbol.
InlinedSsource(st, vis, S, e, norm_path) ==
    LET offset == 0 - e.srcline
        src == st.ssources[S]
        q == GetSsourceByBpo(st.ssources, vis.ss, src.build_id, src.path, offset)
        key == <<src.build_id, src.path, offset>>
        s1 == GetOrCreateSymbol(st, vis.sym, e.funcname, norm_path)
        id == Len(st.ssources) + 1
    IN IF q # 0 THEN [st EXCEPT !.ss = q]
       ELSE IF DictHas(st.newSs, key)
            THEN [st EXCEPT !.ss = DictGet(st.newSs, key)]
            ELSE [s1 EXCEPT !.ssources =
                                Append(@, [symbol |-> s1.sym,
                                           build_id |-> src.build_id,
                                           path |-> src.path,
                                           offset |-> offset,
                                           hash |-> NoVal,
                                           source_path |-> e.srcfile,
                                           line_number |-> e.srcline,
                                           retrace_fail_count |-> 0]),
                            !.newSs = DictPut(@, key, id),
                            !.ss = id]

\* while len(results) > 1: ... results.pop() ...
\* The result carries what is left of results and status: "ok", "raised"
\* (an entry without a line: -srcline is a TypeError) or "overflow".
RECURSIVE InlineLoop(_, _, _, _, _, _)
\* The end of one pass: fl is what the loop over the frames gave, s1 the
\* state with the inlined entry's SymbolSource
InlineNext(fl, s1, st, vis, S, norm_path, results, inl_id) ==
    IF fl.overflow
    THEN [st EXCEPT !.results = results, !.status = "overflow"]
    ELSE InlineLoop([s1 EXCEPT !.threads = fl.threads], vis, S, norm_path,
                    Front(results), inl_id + 1)

\* The loop over the frames of S, for the SymbolSource s1.ss
InlineFrames(s1, st, vis, S, norm_path, results, inl_id) ==
    InlineNext(FrameLoop(s1.threads, S, s1.ss, inl_id + 1, 0), s1, st, vis,
               S, norm_path, results, inl_id)

InlineLoop(st, vis, S, norm_path, results, inl_id) ==
    IF Len(results) <= 1
    THEN [st EXCEPT !.results = results, !.status = "ok"]
    ELSE IF Last(results).srcline = NoLine
         THEN [st EXCEPT !.results = Front(results), !.status = "raised"]
         ELSE InlineFrames(InlinedSsource(st, vis, S, Last(results), norm_path),
                           st, vis, S, norm_path, results, inl_id)

\* The external collaborators' outcome for one location:
\* base is "ok" or "FafError" (get_base_address), resolver is "ok" or "raise"
\* (addr2line) and res is the list addr2line returns.  Failed: one of the three `continue` branches is taken.
NoUnpackedPath(pkgStaged) == ~pkgStaged

BaseAddressFails(base) == base = "FafError"

\* os.path.join(None, ...) raises inside the try when the debuginfo package
\* has no unpacked path, as does a failing addr2line
ResolverFails(dbgStaged, resolver) == ~dbgStaged \/ resolver = "raise"

\* db_symbol.nice_name, db_ssource.symbol, .source_path, .line_number: the
\* assignments that end the pass, s2 carrying the Symbol of entry e
WriteLocation(s2, S, e) ==
    [s2 EXCEPT !.symbols[s2.sym].nice_name =
                   IF @ = NoVal THEN Demangle(e.funcname) ELSE @,
               !.ssources[S].symbol = s2.sym,
               !.ssources[S].source_path = e.srcfile,
               !.ssources[S].line_number = e.srcline,
               !.status = "resolved"]

\* funcname, srcfile, srcline = results.pop() and what follows it, il being
\* the state the while loop left
FinalEntry(il, vis, S, norm_path) ==
    IF il.status # "ok" THEN il
    ELSE IF il.results = <<>>
         \* results.pop() on an empty list: IndexError
         THEN [il EXCEPT !.status = "raised"]
         ELSE WriteLocation(GetOrCreateSymbol(il, vis.sym,
                                              il.results[1].funcname, norm_path),
                            S, il.results[1])

\* The body of the loop over db_ssources for ssource S (norm_path = ... to
\* db_ssource.line_number = srcline).  status is "failed" (a continue
\* branch), "resolved", "raised" (an exception leaves retrace) or "overflow".
RetraceLocation(st, vis, S, pkgStaged, dbgStaged, o) ==
    IF \/ NoUnpackedPath(pkgStaged)
       \/ BaseAddressFails(o.base)
       \/ ResolverFails(dbgStaged, o.resolver)
    THEN [st EXCEPT !.ssources = FailLocation(@, S), !.status = "failed"]
    ELSE FinalEntry(InlineLoop(st, vis, S, GetLibname(st.ssources[S].path),
                               Reverse(o.res), 0),
                    vis, S, GetLibname(st.ssources[S].path))

\* order_by="ReportBtFrame.order" of the frames relationship: the collection
\* as a newly loaded thread has it (frames of equal order by id)
RECURSIVE SortFrames(_)
SortFrames(lst) ==
    IF lst = <<>> THEN <<>>
    ELSE LET k == CHOOSE i \in 1..Len(lst) :
                      \A j \in 1..Len(lst) :
                          \/ lst[i].order < lst[j].order
                          \/ lst[i].order = lst[j].order /\ lst[i].id <= lst[j].id
         IN <<lst[k]>> \o SortFrames([j \in 1..(Len(lst) - 1) |->
                                          IF j < k THEN lst[j] ELSE lst[j + 1]])

\* ------------------------------------------------------------------ inputs
RawFrame(bid, off, file, fp, fn) ==
    [address |-> 4096 + off, build_id |-> bid, build_id_offset |-> off,
     file_name |-> file, fingerprint |-> fp, function_name |-> fn]

FrameMalloc == RawFrame("b1", 16, "/usr/lib/libc.so.6", NoVal, "malloc")
FrameLibc == RawFrame("b1", 16, "/usr/lib//libc.so.6", "f00d", NoVal)
FrameMain == RawFrame("b1", 0, "/usr/bin/app", NoVal, "main")
FrameInit == RawFrame("b1", 0, "/usr/lib/libc.so.6", NoVal, "_init")
FrameBare == RawFrame(NoVal, NoInt, "/usr/bin/app", NoVal, NoVal)

RawThread(crash, frames) == [crash_thread |-> crash, frames |-> frames]

Ureport(stacktrace) ==
    [signal |-> 11, component |-> "app", executable |-> "/usr/bin/app",
     user |-> [root |-> FALSE, local |-> TRUE], stacktrace |-> stacktrace]

Ureports ==
    { Ureport(<<RawThread("True", <<FrameMain>>)>>),
      Ureport(<<RawThread("True", <<FrameInit, FrameMalloc, FrameLibc>>)>>),
      Ureport(<<RawThread("False", <<FrameMalloc>>),
                RawThread("True", <<FrameMain, FrameMalloc>>)>>),
      Ureport(<<RawThread("True", <<FrameBare>>)>>) }

\* The reports save_ureport is called with where it is called again and
\* again or by two units: those of Ureports, reports that name another
\* executable or signal, a report with a frame that has a function_name
\* and no build_id_offset, and one with such a frame and no file_name
SaveInputs ==
    Ureports
    \cup {[Ureport(<<RawThread("True", <<FrameMain>>)>>)
               EXCEPT !.executable = "/usr/bin/other"],
          [Ureport(<<RawThread("True", <<FrameMalloc>>)>>)
               EXCEPT !.signal = 6],
          Ureport(<<RawThread("False",
                              <<FrameMain,
                                RawFrame("b1", NoInt, "/usr/bin/app", NoVal,
                                         "exit")>>),
                    RawThread("True", <<FrameMalloc>>)>>),
          Ureport(<<RawThread("True",
                              <<FrameMain,
                                RawFrame("b1", 8, NoVal, NoVal, "exit")>>)>>)}

Entry(fn, file, line) == [funcname |-> fn, srcfile |-> file, srcline |-> line]

EntryF == Entry("f", "a.c", 7)
EntryG == Entry("_Z1gv", "b.h", 5)
EntryH == Entry("h", "c.h", 6)

\* An answer with as many inlined entries as the stride between two frames
LongChain ==
    [i \in 1..(Stride + 1) |->
        IF i <= Stride THEN Entry("inl", "l.h", 20 + i) ELSE EntryF]

\* The resolver answers the model feeds in
Chains ==
    { <<>>,
      LongChain,
      <<EntryF>>,
      <<EntryG, EntryF>>,
      <<EntryH, EntryG, EntryF>>,
      <<EntryG, EntryH, EntryG, EntryF>>,
      <<Entry("g0", "b.h", 0), EntryF>>,
      <<Entry("g", "b.h", NoLine), EntryF>> }

\* What the collaborators do for one location: base is get_base_address
\* ("ok", "FafError"), resolver is addr2line ("ok", "raise") and res the list
\* it returns; "none" for a collaborator that is not called.
Outcome(base, resolver, res) ==
    [base |-> base, resolver |-> resolver, res |-> res]

NoOutcome == Outcome("none", "none", <<>>)

OutcomesFor(pkgStaged, dbgStaged) ==
    IF ~pkgStaged THEN {NoOutcome}
    ELSE {Outcome("FafError", "none", <<>>)}
         \cup (IF ~dbgStaged THEN {Outcome("ok", "none", <<>>)}
               ELSE {Outcome("ok", "raise", <<>>)}
                    \cup {Outcome("ok", "ok", c) : c \in Chains})

Outcomes ==
    UNION {OutcomesFor(p, d) : p \in BOOLEAN, d \in BOOLEAN}

BinPkgs == <<"bin1", "bin2">>

\* The tasks: up to maxn different locations, each in a binary package
\* (the first in bin1, packages in dict order), and the directories staged.
TaskItems(nss, maxn) ==
    {items \in UNION {[1..n -> [ss : 1..nss, pkg : {1, 2}]] : n \in 1..maxn} :
        /\ \A i, j \in 1..Len(items) : i # j => items[i].ss # items[j].ss
        /\ items[1].pkg = 1
        /\ \A i \in 1..(Len(items) - 1) :
               items[i + 1].pkg \in {items[i].pkg, items[i].pkg + 1}
        /\ \A i \in 1..Len(items) : items[i].pkg <= 2}

TaskPkgs(items) == {BinPkgs[items[i].pkg] : i \in 1..Len(items)}

StagedChoices(items) ==
    LET all == TaskPkgs(items) \cup {"debuginfo", "source"}
    IN {all, all \ {"source"}, all \ {"debuginfo"}, all \ {"bin1"}}

\* ----------------------------------------------------------------- actions
IdleRt ==
    [pc |-> "idle", items |-> <<>>, pos |-> 1, newSym |-> {}, newSs |-> {},
     count0 |-> <<>>, resolved |-> {}]

\* A session with nothing pending (sym, ss, exe, bts) and no call in
\* progress.  During a call of save_ureport the unit keeps the call's
\* arguments and locals: what db_report.backtraces gave, the raw frame
\* reached (thread t, frame k), the
\* ReportBtThread th being filled, fid, the two dicts and the symbol of the
\* frame.
NoSession ==
    [sym |-> {}, ss |-> {}, exe |-> {}, bts |-> {}, open |-> FALSE,
     pc |-> "idle", hasbt |-> FALSE,
     r |-> 0, ureport |-> Ureport(<<>>), flush |-> FALSE, bt |-> 0,
     t |-> 0, th |-> 0, k |-> 0, fid |-> 0, newSym |-> {}, newSs |-> {},
     cursym |-> NoSym]

LastOf(op, ss, status, o) ==
    [op |-> op, ss |-> ss, status |-> status, o |-> o]

\* No call has been made on the raw report
NoAnswer == [op |-> "none", status |-> "none", value |-> <<>>, repaired |-> FALSE]

\* load_config_to_self("normalize", normkeys, True, callback=str2bool)
NormalizeDefault == TRUE

Init ==
    /\ symbols = <<>>
    /\ ssources = <<>>
    /\ threads = <<>>
    /\ backtraces = <<>>
    /\ reports = [r \in 1..MaxReports |-> [errname |-> NoVal]]
    /\ reportexes = <<>>
    /\ flushed = [sym |-> {}, ss |-> {}, exe |-> {}]
    /\ session = [u \in Units |-> NoSession]
    /\ rt = IdleRt
    /\ staged = {}
    /\ calls = [save |-> 0, retrace |-> 0, locs |-> 0]
    /\ last = LastOf("init", 0, "ok", NoOutcome)
    /\ raw = Ureport(<<>>)
    /\ answer = NoAnswer
    /\ normalize = NormalizeDefault

Db == [symbols |-> symbols, ssources |-> ssources, threads |-> threads,
       backtraces |-> backtraces, reports |-> reports,
       reportexes |-> reportexes, raised |-> FALSE, keyerror |-> FALSE]

AllFlushed(d) ==
    [sym |-> 1..Len(d.symbols), ss |-> 1..Len(d.ssources),
     exe |-> 1..Len(d.reportexes)]

\* No exception has left a handler: an exception ends the run.
Running == last.status \notin {"raised", "keyerror"}

\* The reports are used in order: report r is stored after reports 1..r-1.
ReportInUse(r) == IF r = 1 THEN TRUE ELSE reports[r - 1].errname # NoVal

\* The work a new call may still do
WorkLeft ==
    IF rt.pc = "idle" THEN MaxWork - (calls.save + calls.locs) ELSE 0

StoreDb(d) ==
    /\ symbols' = d.symbols
    /\ ssources' = d.ssources
    /\ threads' = d.threads
    /\ backtraces' = d.backtraces
    /\ reports' = d.reports
    /\ reportexes' = d.reportexes

\* save_ureport(db, db_report, ureport, flush, count) for report r; the
\* session is flushed at its end if flush is set, and the FafError and the
\* KeyError leave before that.
SaveUreport(r, ureport, flush, count) ==
    /\ Running
    /\ rt.pc = "idle"
    /\ \A u \in Units : ~session[u].open
    /\ WorkLeft > 0
    /\ ReportInUse(r)
    /\ LET d == SaveUreportBody(Db, flushed, r, ureport, count)
       IN /\ StoreDb(d)
          /\ flushed' = IF flush /\ ~d.raised /\ ~d.keyerror
                        THEN AllFlushed(d) ELSE flushed
          /\ last' = LastOf("save", r,
                            IF d.raised THEN "raised"
                            ELSE IF d.keyerror THEN "keyerror" ELSE "ok",
                            NoOutcome)
    /\ calls' = [calls EXCEPT !.save = @ + 1]
    /\ UNCHANGED <<session, rt, staged>>
    /\ UNCHANGED reportVars

\* retrace(db, task) is entered: new_symbols = {}, new_symbolsources = {}.
\* The task's packages have been unpacked into the staged directories.
RetraceBegin(items, dirs) ==
    /\ Running
    /\ rt.pc = "idle"
    /\ \A u \in Units : ~session[u].open
    /\ Len(items) <= WorkLeft
    /\ rt' = [pc |-> "loop", items |-> items, pos |-> 1,
              newSym |-> {}, newSs |-> {},
              count0 |-> [i \in 1..Len(items) |->
                              ssources[items[i].ss].retrace_fail_count],
              resolved |-> {}]
    /\ staged' = dirs
    /\ calls' = [calls EXCEPT !.retrace = @ + 1, !.locs = @ + Len(items)]
    /\ last' = LastOf("begin", 0, "ok", NoOutcome)
    /\ UNCHANGED <<symbols, ssources, threads, backtraces, reports,
                   reportexes, flushed, session>>
    /\ UNCHANGED reportVars

\* The objects and the two caches as a pass of the loop finds them
LocalState ==
    [symbols |-> symbols, ssources |-> ssources, threads |-> threads,
     newSym |-> rt.newSym, newSs |-> rt.newSs, sym |-> NoSym, ss |-> 0,
     results |-> <<>>, status |-> "ok"]

\* What one pass leaves behind: st1 is the state after the body of the loop
LocDone(st1, it, o) ==
    /\ st1.status # "overflow"
    /\ symbols' = st1.symbols
    /\ ssources' = st1.ssources
    /\ threads' = st1.threads
    /\ rt' = [rt EXCEPT !.pc = IF st1.status = "raised"
                               THEN "raised" ELSE "loop",
                        !.pos = @ + 1,
                        !.newSym = st1.newSym,
                        !.newSs = st1.newSs,
                        !.resolved = IF st1.status = "resolved"
                                     THEN @ \cup {it.ss} ELSE @]
    /\ last' = LastOf("loc", it.ss, st1.status, o)

\* One pass of the loop over db_ssources, with the collaborators' outcome o.
RetraceLoc(o) ==
    /\ rt.pc = "loop"
    /\ rt.pos <= Len(rt.items)
    /\ o \in OutcomesFor(BinPkgs[rt.items[rt.pos].pkg] \in staged,
                         "debuginfo" \in staged)
    /\ LocDone(RetraceLocation(LocalState, flushed, rt.items[rt.pos].ss,
                               BinPkgs[rt.items[rt.pos].pkg] \in staged,
                               "debuginfo" \in staged, o),
               rt.items[rt.pos], o)
    /\ UNCHANGED <<backtraces, reports, reportexes, flushed, session, staged,
                   calls>>
    /\ UNCHANGED reportVars

\* The end of retrace: shutil.rmtree of every staged directory.  retrace
\* does not flush the session: what it added stays pending.
RetraceCleanup ==
    /\ rt.pc = "loop"
    /\ rt.pos > Len(rt.items)
    /\ staged' = {}
    /\ rt' = IdleRt
    /\ last' = LastOf("cleanup", 0, "ok", NoOutcome)
    /\ UNCHANGED <<symbols, ssources, threads, backtraces, reports,
                   reportexes, flushed, session, calls>>
    /\ UNCHANGED reportVars

\* The session expires its objects between two calls: a thread's frames are
\* loaded anew, in the relationship's order.
ExpireSession ==
    /\ Running
    /\ rt.pc = "idle"
    /\ \A u \in Units : ~session[u].open
    /\ \E t \in 1..Len(threads) : threads[t].frames # SortFrames(threads[t].frames)
    /\ threads' = [t \in 1..Len(threads) |->
                      [threads[t] EXCEPT !.frames = SortFrames(@)]]
    /\ last' = LastOf("expire", 0, "ok", NoOutcome)
    /\ UNCHANGED <<symbols, ssources, backtraces, reports, reportexes,
                   flushed, session, rt, staged, calls>>
    /\ UNCHANGED reportVars

Next ==
    \/ \E r \in 1..MaxReports, u \in Ureports, flush \in BOOLEAN :
           SaveUreport(r, u, flush, 1)
    \/ \E items \in TaskItems(Len(ssources), WorkLeft) :
           \E dirs \in StagedChoices(items) : RetraceBegin(items, dirs)
    \/ \E o \in Outcomes : RetraceLoc(o)
    \/ RetraceCleanup
    \/ ExpireSession

Spec == Init /\ [][Next]_vars

\* ------------------------------------------------- concurrent units of work
\* Two units of work, each with a session of its own, run save_ureport at the
\* same time.  Nothing in save_ureport holds a lock, so the calls interleave
\* between any two reads of what the units share: a step of a unit is one
\* query, or the read of db_report.backtraces, together with the code that
\* follows it up to the next one.  A query sees what has been flushed; what
\* a unit adds is pending in its session until the flush at the end of its
\* call.  A FafError ends the unit's run.
\* NextConc has the units call save_ureport with flush set, so that calls
\* run one after another would find each other's objects, and has as many
\* calls made as there are units.

NewIds(old, new) == (Len(old) + 1)..Len(new)

\* for thread in ureport["stacktrace"]: the ReportBtThread of thread t is
\* created, and those of the threads after it as long as they have no frame.
\* th is the thread whose frames come next, 0 after the last thread.
RECURSIVE ConcEnterThread(_, _, _, _)
ConcEnterThread(ths, bt, stacktrace, t) ==
    IF t > Len(stacktrace) THEN [threads |-> ths, t |-> t, th |-> 0]
    ELSE IF stacktrace[t].frames = <<>>
         THEN ConcEnterThread(
                  Append(ths, [backtrace |-> bt, number |-> t,
                               crashthread |-> IsCrashThread(stacktrace[t]),
                               frames |-> <<>>]),
                  bt, stacktrace, t + 1)
         ELSE [threads |-> Append(ths, [backtrace |-> bt, number |-> t,
                                        crashthread |->
                                            IsCrashThread(stacktrace[t]),
                                        frames |-> <<>>]),
               t |-> t, th |-> Len(ths) + 1]

\* The locals of the call of unit u at the frame it has reached
ConcLocal(u) ==
    [symbols |-> symbols, ssources |-> ssources, threads |-> threads,
     newSym |-> session[u].newSym, newSs |-> session[u].newSs,
     tid |-> session[u].t, fid |-> session[u].fid,
     frames |-> threads[session[u].th].frames,
     nextId |-> CountFrames(threads) + 1, sym |-> session[u].cursym, ss |-> 0,
     keyerror |-> FALSE]

\* The raw frame the call of unit u has reached
ConcFrame(u) == session[u].ureport.stacktrace[session[u].t].frames[session[u].k]

\* db_report.backtraces as unit u reads it.  The db_report handed to the
\* call is an object of the unit's own session: its collection has the
\* backtraces that are flushed and those the unit has added, and lacks what
\* another unit has added to its Report object and not flushed.
ConcBacktraces(u) ==
    {b \in ReportBacktraces(backtraces, session[u].r) :
        \A v \in Units \ {u} : b \notin session[v].bts}

\* save_ureport by unit u is entered: db_report.errname is set
ConcSave(u, r, ureport, flush) ==
    /\ rt.pc = "idle"
    /\ session[u].pc = "idle"
    /\ WorkLeft > 0
    /\ ReportInUse(r)
    /\ reports' = SaveErrname(Db, r, ureport).reports
    /\ session' = [session EXCEPT ![u] =
                      [@ EXCEPT !.pc = "exe", !.open = TRUE, !.r = r,
                                !.ureport = ureport, !.flush = flush]]
    /\ calls' = [calls EXCEPT !.save = @ + 1]
    /\ last' = LastOf("save", r, "ok", NoOutcome)
    /\ UNCHANGED <<symbols, ssources, threads, backtraces, reportexes,
                   flushed, rt, staged>>
    /\ UNCHANGED reportVars

\* The call of unit u: get_reportexe and the counter, then the hashes, with
\* the KeyError of _hash_backtrace and the FafError when there is no hash
ConcSaveExe(u) ==
    /\ session[u].pc = "exe"
    /\ LET c == session[u]
           d == SaveReportexe(Db, flushed, c.r, c.ureport, 1)
           keyerror == BacktraceKeyError(c.ureport.stacktrace)
           raised == keyerror \/ HashBacktrace(c.ureport.stacktrace) = <<>>
       IN /\ reportexes' = d.reportexes
          /\ session' = [session EXCEPT ![u] =
                 [@ EXCEPT !.exe = @ \cup NewIds(reportexes, d.reportexes),
                           !.pc = IF raised THEN "raised" ELSE "backtraces",
                           !.open = ~raised]]
          /\ last' = LastOf("exe", c.r,
                            IF keyerror THEN "keyerror"
                            ELSE IF raised THEN "raised" ELSE "ok",
                            NoOutcome)
    /\ UNCHANGED <<symbols, ssources, threads, backtraces, reports, flushed,
                   rt, staged, calls>>
    /\ UNCHANGED reportVars

\* The call of unit u: if not db_report.backtraces, the read
ConcSaveBacktraces(u) ==
    /\ session[u].pc = "backtraces"
    /\ session' = [session EXCEPT ![u] =
                      [@ EXCEPT !.pc = "new",
                                !.hasbt = ConcBacktraces(u) # {}]]
    /\ last' = LastOf("backtraces", session[u].r, "ok", NoOutcome)
    /\ UNCHANGED <<symbols, ssources, threads, backtraces, reports,
                   reportexes, flushed, rt, staged, calls>>
    /\ UNCHANGED reportVars

\* The call of unit u, the report having had no backtrace when it was read:
\* the two dicts, the ReportBacktrace, its hashes and the first
\* ReportBtThread; else the call goes to its end
ConcSaveNew(u) ==
    /\ session[u].pc = "new"
    /\ LET c == session[u]
           btId == Len(backtraces) + 1
           e == ConcEnterThread(threads, btId, c.ureport.stacktrace, 1)
       IN IF c.hasbt
          THEN /\ session' = [session EXCEPT ![u] = [@ EXCEPT !.pc = "flush"]]
               /\ UNCHANGED <<backtraces, threads>>
          ELSE /\ backtraces' =
                      Append(backtraces,
                             [report |-> c.r,
                              hashes |-> HashBacktrace(c.ureport.stacktrace)])
               /\ threads' = e.threads
               /\ session' = [session EXCEPT ![u] =
                      [@ EXCEPT !.pc = IF e.th = 0 THEN "flush" ELSE "symbol",
                                !.bts = @ \cup {btId},
                                !.bt = btId, !.t = e.t, !.th = e.th,
                                !.k = 1, !.fid = 0,
                                !.newSym = {}, !.newSs = {},
                                !.cursym = NoSym]]
    /\ last' = LastOf("new", session[u].r, "ok", NoOutcome)
    /\ UNCHANGED <<symbols, ssources, reports, reportexes, flushed, rt,
                   staged, calls>>
    /\ UNCHANGED reportVars

\* The call of unit u at a frame: fid += 10, the KeyError of a frame that
\* lacks a key, get_symbol_by_name_path and what follows it up to
\* get_ssource_by_bpo
ConcSaveSymbol(u) ==
    /\ session[u].pc = "symbol"
    /\ LET s1 == SaveFrameSymbol(ConcLocal(u), flushed, ConcFrame(u))
       IN /\ symbols' = s1.symbols
          /\ session' = [session EXCEPT ![u] =
                            [@ EXCEPT !.pc = IF s1.keyerror THEN "raised"
                                             ELSE "ssource",
                                      !.open = ~s1.keyerror,
                                      !.sym = @ \cup NewIds(symbols, s1.symbols),
                                      !.newSym = s1.newSym,
                                      !.cursym = s1.sym,
                                      !.fid = s1.fid]]
          /\ last' = LastOf("symbol", 0,
                            IF s1.keyerror THEN "keyerror" ELSE "ok",
                            NoOutcome)
    /\ UNCHANGED <<ssources, threads, backtraces, reports, reportexes,
                   flushed, rt, staged, calls>>
    /\ UNCHANGED reportVars

\* The call of unit u at a frame: get_ssource_by_bpo and what follows it up
\* to the next frame's get_symbol_by_name_path or the end of the loops
ConcSaveSsource(u) ==
    /\ session[u].pc = "ssource"
    /\ LET c == session[u]
           s2 == SaveFrameSsource(ConcLocal(u), flushed, ConcFrame(u))
           ths == [threads EXCEPT ![c.th].frames = s2.frames]
           more == c.k < Len(c.ureport.stacktrace[c.t].frames)
           e == ConcEnterThread(ths, c.bt, c.ureport.stacktrace, c.t + 1)
       IN /\ ssources' = s2.ssources
          /\ threads' = IF more THEN ths ELSE e.threads
          /\ session' = [session EXCEPT ![u] =
                 [@ EXCEPT !.ss = @ \cup NewIds(ssources, s2.ssources),
                           !.newSs = s2.newSs,
                           !.pc = IF more \/ e.th # 0 THEN "symbol"
                                  ELSE "flush",
                           !.k = IF more THEN c.k + 1 ELSE 1,
                           !.t = IF more THEN c.t ELSE e.t,
                           !.th = IF more THEN c.th ELSE e.th,
                           !.fid = IF more THEN c.fid ELSE 0]]
    /\ last' = LastOf("ssource", 0, "ok", NoOutcome)
    /\ UNCHANGED <<symbols, backtraces, reports, reportexes, flushed, rt,
                   staged, calls>>
    /\ UNCHANGED reportVars

\* The end of the call of unit u: if flush: db.session.flush()
ConcFlush(u) ==
    /\ session[u].pc = "flush"
    /\ flushed' = IF session[u].flush
                  THEN [sym |-> flushed.sym \cup session[u].sym,
                        ss |-> flushed.ss \cup session[u].ss,
                        exe |-> flushed.exe \cup session[u].exe]
                  ELSE flushed
    /\ session' = [session EXCEPT ![u] =
                      IF session[u].flush THEN NoSession
                      ELSE [NoSession EXCEPT !.sym = session[u].sym,
                                             !.ss = session[u].ss,
                                             !.exe = session[u].exe,
                                             !.bts = session[u].bts]]
    /\ last' = LastOf("flush", 0, "ok", NoOutcome)
    /\ UNCHANGED <<symbols, ssources, threads, backtraces, reports,
                   reportexes, rt, staged, calls>>
    /\ UNCHANGED reportVars

NextConc ==
    \/ \E u \in Units, r \in 1..MaxReports, ur \in SaveInputs,
          flush \in {TRUE} :
           /\ calls.save < Cardinality(Units)
           /\ ConcSave(u, r, ur, flush)
    \/ \E u \in Units : ConcSaveExe(u)
    \/ \E u \in Units : ConcSaveBacktraces(u)
    \/ \E u \in Units : ConcSaveNew(u)
    \/ \E u \in Units : ConcSaveSymbol(u)
    \/ \E u \in Units : ConcSaveSsource(u)
    \/ \E u \in Units : ConcFlush(u)

SpecConc == Init /\ [][NextConc]_vars

\* ------------------------------------------------------------------ claims
\* The (build_id, path, offset) identity of a stored location
LocationKey(i) == <<ssources[i].build_id, ssources[i].path, ssources[i].offset>>

AllFrames ==
    UNION {{<<t, k>> : k \in 1..Len(threads[t].frames)} : t \in 1..Len(threads)}

FrameAt(c) == threads[c[1]].frames[c[2]]

\* C1: after any sequence of save_ureport and retrace calls run one after
\* another, no two locations written to the store share the same
\* (build_id, path, offset), and every frame references a location.
C1_LocationsUnique ==
    /\ \A i, j \in flushed.ss : i # j => LocationKey(i) # LocationKey(j)
    /\ \A c \in AllFrames : FrameAt(c).symbolsource \in 1..Len(ssources)

\* C2: when two units of work run concurrently and both need a location that
\* does not exist yet, exactly one location with that identity exists once
\* both have flushed.
C2_AtomicGetOrCreate ==
    (\A u \in Units : ~session[u].open) =>
        \A i, j \in flushed.ss :
            LocationKey(i) = LocationKey(j) => i = j

\* The step is one pass of retrace's loop over the locations of the task.
LocStep == rt.pc = "loop" /\ rt'.pos = rt.pos + 1

CurrentItem == rt.items[rt.pos]

\* C3: a location whose resolution fails because its package has no unpacked
\* path, the base-address probe fails or the resolver fails has its failure
\* counter incremented by exactly 1; its symbol, source file and line number
\* stay as they are and no frame, location or symbol is created.
C3_FailureOnlyCounts ==
    [][(/\ LocStep
        /\ \/ BinPkgs[CurrentItem.pkg] \notin staged
           \/ last'.o.base = "FafError"
           \/ "debuginfo" \notin staged
           \/ last'.o.resolver = "raise")
       => /\ Len(ssources') = Len(ssources)
          /\ \A i \in 1..Len(ssources) :
                 ssources'[i] =
                     IF i = CurrentItem.ss
                     THEN [ssources[i] EXCEPT
                               !.retrace_fail_count = ssources[i].retrace_fail_count + 1]
                     ELSE ssources[i]
          /\ threads' = threads
          /\ symbols' = symbols
          /\ rt'.pc = "loop"]_vars

\* A location that carries a symbol has just failed for the second time,
\* this time because the resolver raised.
C3_Witness ==
    /\ last.op = "loc"
    /\ last.status = "failed"
    /\ last.o.resolver = "raise"
    /\ ssources[last.ss].retrace_fail_count = 2
    /\ ssources[last.ss].symbol # NoSym

\* The frames (as <<thread, position>>) that reference location S
FramesOf(S) == {c \in AllFrames : FrameAt(c).symbolsource = S}

\* The positions of thread t that the step has added
AddedTo(t) == (Len(threads[t].frames) + 1)..Len(threads'[t].frames)

\* The step is a pass of the loop in which the resolver answered with res and
\* the location was resolved.
ResolvedStep ==
    /\ LocStep
    /\ last'.status = "resolved"

\* C4: a failure while resolving one location never aborts retrace: whatever
\* the collaborators do, no pass leaves retrace by an exception, and when
\* retrace ends every location of the task has been resolved or has had its
\* failure counter incremented.
C4_NoAbort ==
    [][rt.pc = "loop" =>
          /\ rt'.pc # "raised"
          /\ rt'.pc = "idle" =>
                 \A i \in 1..Len(rt.items) :
                     \/ rt.items[i].ss \in rt.resolved
                     \/ ssources'[rt.items[i].ss].retrace_fail_count
                            = rt.count0[i] + 1]_vars

\* C5: on every exit path of retrace, the staged directories of the task
\* (debuginfo, source, every binary package) have been removed.
C5_ArtifactsRemoved ==
    rt.pc \in {"idle", "raised"} => staged = {}

\* Frame F (at c) has no inlined frame between itself and its predecessor.
NotExpanded(c) ==
    \A k \in 1..Len(threads[c[1]].frames) :
        LET g == threads[c[1]].frames[k]
        IN ~(g.inlined /\ g.order < FrameAt(c).order
                       /\ g.order > FrameAt(c).order - Stride)

\* C6: when the resolver returns n >= 2 tuples for a location referenced by
\* one original frame F that has not been expanded before, retrace inserts
\* exactly n-1 frames on F's thread, inlined, with the orders F.order - 1,
\* ..., F.order - (n-1) in that sequence, and keeps the frames there were.
C6_InsertsAllInlined ==
    [][(/\ ResolvedStep
        /\ Len(last'.o.res) >= 2
        /\ Cardinality(FramesOf(CurrentItem.ss)) = 1
        /\ \A c \in FramesOf(CurrentItem.ss) :
               ~FrameAt(c).inlined /\ NotExpanded(c))
       => \A c \in FramesOf(CurrentItem.ss) :
              LET t == c[1]
                  old == threads[t].frames
                  new == threads'[t].frames
                  n == Len(last'.o.res)
              IN /\ Len(new) = Len(old) + n - 1
                 /\ SubSeq(new, 1, Len(old)) = old
                 /\ \A k \in 1..(n - 1) :
                        /\ new[Len(old) + k].inlined
                        /\ new[Len(old) + k].order = FrameAt(c).order - k]_vars

\* C7: every inlined frame inserted for an original frame F has an order
\* strictly above that of F's predecessor from ingestion and strictly below
\* F's, whatever the length of the resolver's answer.
C7_InlinedBetween ==
    [][(/\ LocStep
        /\ \A c \in FramesOf(CurrentItem.ss) : ~FrameAt(c).inlined)
       => \A t \in 1..Len(threads) : \A k \in AddedTo(t) :
              \E c \in FramesOf(CurrentItem.ss) :
                  /\ c[1] = t
                  /\ threads'[t].frames[k].order < FrameAt(c).order
                  /\ FrameAt(c).order > Stride =>
                         threads'[t].frames[k].order > FrameAt(c).order - Stride]_vars

\* C8: each inlined frame retrace creates references a location of negative
\* offset, which is the location of no frame created from a raw frame, and
\* the inlined frames created in one pass for one frame have pairwise
\* different locations.
C8_SyntheticOffsets ==
    [][LocStep =>
          \A t \in 1..Len(threads) : \A k \in AddedTo(t) :
              LET g == threads'[t].frames[k]
              IN /\ ssources'[g.symbolsource].offset < 0
                 /\ \A c \in AllFrames :
                        ~FrameAt(c).inlined =>
                            FrameAt(c).symbolsource # g.symbolsource
                 /\ \A j \in AddedTo(t) :
                        (/\ j # k
                         /\ threads'[t].frames[j].order # g.order)
                        => threads'[t].frames[j].symbolsource # g.symbolsource]_vars

\* The location of entry e of an answer for location S: (build_id, path,
\* minus the entry's line)
IsInlinedLocation(i, S, e) ==
    /\ ssources[i].build_id = ssources[S].build_id
    /\ ssources[i].path = ssources[S].path
    /\ ssources[i].offset = 0 - e.srcline

\* Every original frame of location S has, for each of the first n-1 entries
\* of res, the inlined frame of that entry right where retrace puts it, on a
\* thread whose frames are in the order the store loads them in.
AlreadyExpanded(S, res) ==
    /\ FramesOf(S) # {}
    /\ \A c \in FramesOf(S) :
           /\ ~FrameAt(c).inlined
           /\ threads[c[1]].frames = SortFrames(threads[c[1]].frames)
           /\ \A k \in 1..(Len(res) - 1) :
                  \E j \in 1..Len(threads[c[1]].frames) :
                      LET g == threads[c[1]].frames[j]
                      IN /\ g.inlined
                         /\ g.order = FrameAt(c).order - k
                         /\ IsInlinedLocation(g.symbolsource, S, res[k])

\* C9: retracing a location again with the same answer, when its frames
\* have been expanded with that answer already, inserts no frame.
C9_ExpansionIdempotent ==
    [][(/\ ResolvedStep
        /\ Len(last'.o.res) >= 2
        /\ AlreadyExpanded(CurrentItem.ss, last'.o.res))
       => threads' = threads]_vars

\* Entry e of the answer for location S is represented by an inlined frame
\* on the thread of each frame that references S.
Represented(S, e) ==
    \A c \in FramesOf(S) :
        \E j \in 1..Len(threads[c[1]].frames) :
            /\ threads[c[1]].frames[j].inlined
            /\ IsInlinedLocation(threads[c[1]].frames[j].symbolsource, S, e)

\* Location S carries the symbol name, source file and line of entry e.
WrittenFrom(S, e) ==
    /\ ssources[S].symbol # NoSym
    /\ symbols[ssources[S].symbol].name = e.funcname
    /\ ssources[S].source_path = e.srcfile
    /\ ssources[S].line_number = e.srcline

\* C10: after a successful retrace the location carries the symbol
\* name, source file and line of the first tuple of the answer, and every
\* other entry is represented by an inlined frame.
C10_FirstTupleWritten ==
    (last.op = "loc" /\ last.status = "resolved") =>
        /\ WrittenFrom(last.ss, last.o.res[1])
        /\ \A i \in 2..Len(last.o.res) : Represented(last.ss, last.o.res[i])

\* ======================================================================
\* validate_ureport, _get_crash_thread, _hash_backtrace and hash_ureport on
\* a raw report.  A key a dict does not carry is NoVal (NoInt for a number);
\* threads are dicts with a list of frames, frames are dicts.

\* ------------------------------------------------------- _get_crash_thread
\* crashthreads = [t for t in stacktrace if "crash_thread" in t and ...]
CrashThreads(stacktrace) ==
    {i \in 1..Len(stacktrace) : IsCrashThread(stacktrace[i])}

\* A variant that takes the first crash thread there is
GetFirstCrashThread(stacktrace) ==
    IF CrashThreads(stacktrace) = {}
    THEN [status |-> "No crash thread found", frames |-> <<>>]
    ELSE [status |-> "ok",
          frames |-> stacktrace[Min(CrashThreads(stacktrace))].frames]

\* _get_crash_thread: the frames of the one crash thread, or the FafError
GetCrashThread(stacktrace) ==
    IF CrashThreads(stacktrace) = {}
    THEN [status |-> "No crash thread found", frames |-> <<>>]
    ELSE IF Cardinality(CrashThreads(stacktrace)) > 1
         THEN [status |-> "Multiple crash threads found", frames |-> <<>>]
         ELSE [status |-> "ok",
               frames |-> stacktrace[Min(CrashThreads(stacktrace))].frames]

\* --------------------------------------------- validate_ureport: repair pass
\* str.lower() on the function names the model feeds in
Lower(n) ==
    CASE n = "JIT_enter" -> "jit_enter"
      [] OTHER -> n

\* "jit" in name, for a lower-case name
HasJit(n) == n \in {"jit_enter", "jit_call", "jit_stub"}

\* The test as it would be without lower()
HasJitAsWritten(f) ==
    /\ f.file_name # NoVal
    /\ f.function_name # NoVal
    /\ HasJit(f.function_name)

\* "file_name" in frame and "function_name" in frame and
\* "jit" in frame["function_name"].lower()
IsJitFrame(f) ==
    /\ f.file_name # NoVal
    /\ f.function_name # NoVal
    /\ HasJit(Lower(f.function_name))

\* jit_fname after the first if of the loop body
JitFname(jit_fname, f) == IF IsJitFrame(f) THEN f.file_name ELSE jit_fname

\* "function_name" not in frame or frame["function_name"] == "??"
NoFunctionName(f) == f.function_name = NoVal \/ f.function_name = "??"

\* The two tests of the second if taken apart: past a JIT caller a missing
\* file name is filled, and so is a missing function name
FillFrameEither(jit_fname, f) ==
    IF jit_fname # NoVal
    THEN [f EXCEPT !.file_name = IF @ = NoVal THEN jit_fname ELSE @,
                   !.function_name = IF NoFunctionName(f)
                                     THEN "anonymous function" ELSE @]
    ELSE f

\* The second if of the loop body: the frame gets the JIT caller's file name
FillFrame(jit_fname, f) ==
    IF f.file_name = NoVal /\ jit_fname # NoVal
    THEN [f EXCEPT !.file_name = jit_fname,
                   !.function_name = IF NoFunctionName(f)
                                     THEN "anonymous function" ELSE @]
    ELSE f

\* for frame in thread["frames"]: the frames from position k on, jit_fname
\* being what the frames before k left
RECURSIVE RepairFrames(_, _, _)
RepairFrames(frames, k, jit_fname) ==
    IF k > Len(frames) THEN frames
    ELSE RepairFrames([frames EXCEPT ![k] = FillFrame(JitFname(jit_fname, @), @)],
                      k + 1, JitFname(jit_fname, frames[k]))

\* The frame the fix is applied to, had the loop's first frame been taken
FixFirstFrame(frames) ==
    IF frames = <<>> THEN frames
    ELSE [frames EXCEPT ![1] =
              [@ EXCEPT !.file_name = IF @ = NoVal THEN "unknown filename" ELSE @]]

\* The frames left as the loop over them gave them
KeepLastFrame(frames) == frames

\* if thread["frames"]: last_frame = thread["frames"][-1] ...
FixLastFrame(frames) ==
    IF frames = <<>> THEN frames
    ELSE [frames EXCEPT ![Len(frames)] =
              [@ EXCEPT !.file_name = IF @ = NoVal
                                      THEN "unknown filename" ELSE @,
                        !.function_name = IF NoFunctionName(frames[Len(frames)])
                                          THEN "anonymous function" ELSE @]]

\* The body of the loop over the threads: jit_fname = None, the frames, the
\* last frame
RepairThread(thread) ==
    [thread EXCEPT !.frames = FixLastFrame(RepairFrames(@, 1, NoVal))]

\* The repair pass (the report is changed in place)
Repair(stacktrace) ==
    [i \in 1..Len(stacktrace) |-> RepairThread(stacktrace[i])]

\* ------------------------------------------ validate_ureport: the checker
\* StringChecker(pattern=r"^[a-fA-F0-9]+$") on the strings the model feeds in
IsHex(x) == x \in {"b1", "f00d"}

\* StringChecker(pattern=r"^[a-zA-Z0-9\-\._]+$") on the model's components
IsComponentName(x) == x \in {"app", "libfoo"}

\* The frame checker without its build_id_offset entry
CheckFrameNoOffset(f) ==
    /\ f.address # NoInt /\ f.address >= 0
    /\ f.file_name # NoVal
    /\ f.build_id # NoVal => IsHex(f.build_id)
    /\ f.fingerprint # NoVal => IsHex(f.fingerprint)

\* The DictChecker of one frame: address, build_id_offset and file_name are
\* mandatory, build_id, fingerprint and function_name are not
CheckFrame(f) ==
    /\ f.address # NoInt /\ f.address >= 0
    /\ f.build_id_offset # NoInt /\ f.build_id_offset >= 0
    /\ f.file_name # NoVal
    /\ f.build_id # NoVal => IsHex(f.build_id)
    /\ f.fingerprint # NoVal => IsHex(f.fingerprint)

\* The DictChecker of one thread: crash_thread a bool if there, frames a
\* list of at least one frame
CheckThread(t) ==
    /\ t.crash_thread \in {NoVal, "True", "False"}
    /\ Len(t.frames) >= 1
    /\ \A j \in 1..Len(t.frames) : CheckFrame(t.frames[j])

\* CoredumpProblem.checker.check(ureport)
CheckUreport(u) ==
    /\ u.signal >= 0
    /\ IsComponentName(u.component)
    /\ Len(u.stacktrace) >= 1
    /\ \A i \in 1..Len(u.stacktrace) : CheckThread(u.stacktrace[i])

\* validate_ureport on an already repaired report: True, or the exception
ValidateRepaired(u) ==
    IF ~CheckUreport(u) THEN "CheckError"
    ELSE IF GetCrashThread(u.stacktrace).status # "ok"
         THEN GetCrashThread(u.stacktrace).status
         ELSE "True"

\* ------------------------------------------------------------ hash_ureport
\* self.hashframes, by default
HashFrames == 16

\* The key of the first branch taken, fingerprint being looked at first
SelectKeyFingerprintFirst(crashthread) ==
    IF \A i \in 1..Len(crashthread) : FrameHas(crashthread[i], "fingerprint")
    THEN "fingerprint"
    ELSE IF \A i \in 1..Len(crashthread) : FrameHas(crashthread[i], "function_name")
         THEN "function_name"
         ELSE "build_id_offset"

\* if all("function_name" in f ...) ... elif ... else
SelectKey(crashthread) ==
    IF \A i \in 1..Len(crashthread) : FrameHas(crashthread[i], "function_name")
    THEN "function_name"
    ELSE IF \A i \in 1..Len(crashthread) : FrameHas(crashthread[i], "fingerprint")
         THEN "fingerprint"
         ELSE "build_id_offset"

\* The frames the loop of hash_ureport reads: i < self.hashframes
TopFrames(crashthread) == SubSeq(crashthread, 1, Min({Len(crashthread), HashFrames}))

\* "{0} @ {1}".format(frame[key], frame["file_name"])
ShortLine(f, key) == [text |-> KeyText(f, key), file |-> f.file_name]

\* hashbase of hash_ureport: the component, then a line for each top frame
ShortHashBase(component, frames, key) ==
    <<[text |-> component, file |-> ""]>>
        \o [i \in 1..Len(frames) |-> ShortLine(frames[i], key)]

\* frame[key] or frame["file_name"] of a frame that has no such key
ShortKeyError(frames, key) ==
    \E i \in 1..Len(frames) :
        ~FrameHas(frames[i], key) \/ frames[i].file_name = NoVal

\* hash_ureport with the crash thread found
HashCrashThread(component, crashthread) ==
    IF ShortKeyError(TopFrames(crashthread), SelectKey(crashthread))
    THEN [status |-> "KeyError", value |-> <<>>]
    ELSE [status |-> "ok",
          value |-> <<HashList(ShortHashBase(component, TopFrames(crashthread),
                                             SelectKey(crashthread)))>>]

\* hash_ureport: the short hash, or the exception
HashUreport(u) ==
    IF GetCrashThread(u.stacktrace).status # "ok"
    THEN [status |-> GetCrashThread(u.stacktrace).status, value |-> <<>>]
    ELSE HashCrashThread(u.component, GetCrashThread(u.stacktrace).frames)

\* -------------------------------------------------- raw reports fed in
\* The longest thread of the reports enumerated frame by frame
MaxRawFrames == 3

VBoth == RawFrame("b1", 16, "/usr/lib/libc.so.6", "f00d", "malloc")
VJit == RawFrame("b1", 32, "/usr/lib/libjvm.so", NoVal, "JIT_enter")
VJitLow == RawFrame("b1", 48, "/usr/lib/libv8.so", "f00d", "jit_call")
VAnon == RawFrame(NoVal, 64, NoVal, NoVal, NoVal)
VUnknown == RawFrame(NoVal, 64, NoVal, "f00d", "??")
VStub == RawFrame(NoVal, 80, NoVal, NoVal, "jit_stub")
VNegative == [FrameMain EXCEPT !.address = -2]
VNamedUnknown == RawFrame("b1", 96, "/usr/bin/app", NoVal, "??")

FramePool ==
    {FrameMain, FrameLibc, VBoth, VJit, VJitLow, VAnon, VUnknown, VStub,
     VNamedUnknown}

\* The lists of at most n frames of the pool
FrameLists(n) == UNION {[1..k -> FramePool] : k \in 0..n}

\* A crash thread of more than HashFrames frames: HashFrames times the same
\* frame, then tail
LongThread(tail) == RawThread("True", [i \in 1..HashFrames |-> VBoth] \o tail)

\* Threads that come second in a report
SideThreads ==
    { RawThread("True", <<VAnon, FrameMain>>),
      RawThread(NoVal, <<FrameLibc>>),
      RawThread("False", <<FrameMain, VAnon, VBoth>>) }

RawReports ==
    {Ureport(<<RawThread(c, fs)>>) :
         c \in {"True", NoVal}, fs \in FrameLists(MaxRawFrames)}
    \cup {Ureport(<<RawThread(c, fs), t>>) :
              c \in {"True", NoVal}, fs \in FrameLists(MaxRawFrames),
              t \in SideThreads}
    \cup {Ureport(<<LongThread(tail)>>) :
              tail \in {<<>>, <<VBoth>>, <<FrameMain>>, <<FrameLibc>>,
                        <<FrameLibc, VBoth>>}}
    \cup {Ureport(<<>>),
          Ureport(<<RawThread("True", <<FrameBare>>)>>),
          Ureport(<<RawThread("True", <<VNegative>>)>>),
          [Ureport(<<RawThread("True", <<FrameMain>>)>>)
               EXCEPT !.component = "lib foo"],
          [Ureport(<<RawThread("True", <<VBoth>>)>>)
               EXCEPT !.component = "libfoo"]}

\* ------------------------------------------------- calls on a raw report
\* validate_ureport(raw): the repair pass changes raw in place, then the
\* checker and _get_crash_thread decide
DoValidate ==
    /\ raw' = [raw EXCEPT !.stacktrace = Repair(@)]
    /\ answer' = [op |-> "validate_ureport",
                  status |-> ValidateRepaired(raw'),
                  value |-> <<>>, repaired |-> TRUE]
    /\ UNCHANGED storeVars

\* _get_crash_thread(raw["stacktrace"])
DoGetCrashThread ==
    /\ answer' = [op |-> "_get_crash_thread",
                  status |-> GetCrashThread(raw.stacktrace).status,
                  value |-> GetCrashThread(raw.stacktrace).frames,
                  repaired |-> answer.repaired]
    /\ UNCHANGED <<raw, storeVars>>

\* _hash_backtrace(raw["stacktrace"])
DoHashBacktrace ==
    /\ answer' = [op |-> "_hash_backtrace",
                  status |-> IF BacktraceKeyError(raw.stacktrace)
                             THEN "KeyError" ELSE "ok",
                  value |-> IF BacktraceKeyError(raw.stacktrace)
                            THEN <<>> ELSE HashBacktrace(raw.stacktrace),
                  repaired |-> answer.repaired]
    /\ UNCHANGED <<raw, storeVars>>

\* hash_ureport(raw)
DoHashUreport ==
    /\ answer' = [op |-> "hash_ureport",
                  status |-> HashUreport(raw).status,
                  value |-> HashUreport(raw).value,
                  repaired |-> answer.repaired]
    /\ UNCHANGED <<raw, storeVars>>

InitReport ==
    /\ symbols = <<>>
    /\ ssources = <<>>
    /\ threads = <<>>
    /\ backtraces = <<>>
    /\ reports = [r \in 1..MaxReports |-> [errname |-> NoVal]]
    /\ reportexes = <<>>
    /\ flushed = [sym |-> {}, ss |-> {}, exe |-> {}]
    /\ session = [u \in Units |-> NoSession]
    /\ rt = IdleRt
    /\ staged = {}
    /\ calls = [save |-> 0, retrace |-> 0, locs |-> 0]
    /\ last = LastOf("init", 0, "ok", NoOutcome)
    /\ raw \in RawReports
    /\ answer = NoAnswer
    /\ normalize = NormalizeDefault

NextReport ==
    \/ DoValidate
    \/ DoGetCrashThread
    \/ DoHashBacktrace
    \/ DoHashUreport

SpecReport == InitReport /\ [][NextReport]_vars

\* ------------------------------------------------------------------ claims
\* validate_ureport has returned True on raw (raw is the repaired report)
Validated == answer.repaired /\ ValidateRepaired(raw) = "True"

\* C11: on every report validate_ureport returned True for, _hash_backtrace
\* returns at least one hash, so that save_ureport does not raise "Unable to
\* get backtrace hash" on it.
C11_ValidatedHasHash ==
    (Validated /\ answer.op = "_hash_backtrace") =>
        /\ answer.status = "ok"
        /\ Len(answer.value) >= 1

\* A validated report whose frames share neither function_name nor
\* fingerprint has been hashed: the one hash is that of build_id_offset.
C11_Witness ==
    /\ Validated
    /\ answer.op = "_hash_backtrace"
    /\ Len(answer.value) = 1
    /\ \E i \in 1..Len(raw.stacktrace) : \E j \in 1..Len(raw.stacktrace[i].frames) :
           raw.stacktrace[i].frames[j].function_name = NoVal
    /\ \E i \in 1..Len(raw.stacktrace) : \E j \in 1..Len(raw.stacktrace[i].frames) :
           raw.stacktrace[i].frames[j].fingerprint = NoVal

\* Every frame of every thread of bt carries key
CarriedByAll(bt, key) ==
    \A i \in 1..Len(bt) : \A j \in 1..Len(bt[i].frames) :
        CASE key = "function_name" -> bt[i].frames[j].function_name # NoVal
          [] key = "fingerprint" -> bt[i].frames[j].fingerprint # NoVal
          [] key = "build_id_offset" -> bt[i].frames[j].build_id_offset # NoInt

\* The hash of key if every frame of every thread carries it, nothing if not
HashIfCarried(bt, key) ==
    IF CarriedByAll(bt, key) THEN <<HashList(HashBase(bt, key))>> ELSE <<>>

\* C12: _hash_backtrace returns one hash for each of function_name,
\* fingerprint, build_id_offset, in that order, that every frame of every
\* thread carries, and none for a key that a frame of any thread (the crash
\* thread or another) lacks.
C12_OneHashPerCarriedKey ==
    (answer.op = "_hash_backtrace" /\ answer.status = "ok") =>
        answer.value = HashIfCarried(raw.stacktrace, "function_name")
                           \o HashIfCarried(raw.stacktrace, "fingerprint")
                           \o HashIfCarried(raw.stacktrace, "build_id_offset")

\* A report has been hashed whose crash thread carries function_name in
\* every frame while a frame of another thread lacks it: two hashes.
C12_Witness ==
    /\ answer.op = "_hash_backtrace"
    /\ answer.status = "ok"
    /\ Len(answer.value) = 2
    /\ \E i \in 1..Len(raw.stacktrace) :
           /\ IsCrashThread(raw.stacktrace[i])
           /\ \A j \in 1..Len(raw.stacktrace[i].frames) :
                  raw.stacktrace[i].frames[j].function_name # NoVal
    /\ \E i \in 1..Len(raw.stacktrace) :
           /\ ~IsCrashThread(raw.stacktrace[i])
           /\ \E j \in 1..Len(raw.stacktrace[i].frames) :
                  raw.stacktrace[i].frames[j].function_name = NoVal

\* C13: when no key is carried by every frame of every thread of a report's
\* stacktrace, save_ureport raises and stores no backtrace (with its
\* hashes) and no thread (with its frames) for the report.
C13_UnhashableRejected ==
    [][\A r \in 1..MaxReports, u \in Ureports, flush \in BOOLEAN :
           (/\ SaveUreport(r, u, flush, 1)
            /\ \A k \in {"function_name", "fingerprint", "build_id_offset"} :
                   ~CarriedByAll(u.stacktrace, k))
           => /\ last'.status = "raised"
              /\ backtraces' = backtraces
              /\ threads' = threads]_vars

\* save_ureport has raised on a report after another report was stored
C13_Witness ==
    /\ last.op = "save"
    /\ last.status = "raised"
    /\ ReportBacktraces(backtraces, last.ss) = {}
    /\ Len(backtraces) >= 1
    /\ reports[last.ss].errname # NoVal

\* The short hash of component and the top frames of crashthread under key
ShortHashWith(component, crashthread, key) ==
    <<HashList(<<[text |-> component, file |-> ""]>>
                   \o [i \in 1..Min({Len(crashthread), HashFrames}) |->
                          [text |-> KeyText(crashthread[i], key),
                           file |-> crashthread[i].file_name]])>>

\* Every frame of the list carries key
InEveryFrame(frames, key) ==
    CarriedByAll(<<[frames |-> frames]>>, key)

\* C14: hash_ureport takes function_name when every frame of the crash
\* thread has it (fingerprint present everywhere or not), else fingerprint
\* when every frame has it, else build_id_offset; on a validated report the
\* call succeeds and the key taken is present in every frame of the crash
\* thread.
C14_KeyPrecedence ==
    answer.op = "hash_ureport" =>
        LET ct == GetCrashThread(raw.stacktrace).frames
            key == IF InEveryFrame(ct, "function_name") THEN "function_name"
                   ELSE IF InEveryFrame(ct, "fingerprint") THEN "fingerprint"
                   ELSE "build_id_offset"
        IN /\ answer.status = "ok" =>
                  answer.value = ShortHashWith(raw.component, ct, key)
           /\ Validated => answer.status = "ok" /\ InEveryFrame(ct, key)

\* The short hash of a validated report has been taken whose crash thread
\* has function_name and fingerprint in every frame.
C14_Witness ==
    /\ answer.op = "hash_ureport"
    /\ answer.status = "ok"
    /\ Validated
    /\ InEveryFrame(GetCrashThread(raw.stacktrace).frames, "function_name")
    /\ InEveryFrame(GetCrashThread(raw.stacktrace).frames, "fingerprint")
    /\ Len(GetCrashThread(raw.stacktrace).frames) >= 2

\* Reports made from u by replacing what lies below the top frames of its
\* crash thread, or by adding a thread that is not the crash thread
SameTopReports(u) ==
    IF CrashThreads(u.stacktrace) = {} THEN {}
    ELSE {[u EXCEPT !.stacktrace[Min(CrashThreads(u.stacktrace))].frames =
                        TopFrames(@) \o tail] :
              tail \in {<<>>, <<VBoth>>, <<FrameMain>>, <<FrameLibc, VBoth>>}}
         \cup {[u EXCEPT !.stacktrace = @ \o <<RawThread("False", <<FrameMain>>)>>]}

\* C15: the short hash depends only on the component and the first
\* HashFrames frames of the crash thread: a validated report with the same
\* component and the same top frames of the crash thread as raw gets the
\* short hash raw gets, whatever its other threads and its deeper frames are.
C15_ShortHashOfTopFrames ==
    (answer.op = "hash_ureport" /\ Validated) =>
        \A v \in SameTopReports(raw) :
            (/\ Repair(v.stacktrace) = v.stacktrace
             /\ ValidateRepaired(v) = "True"
             /\ v.component = raw.component
             /\ TopFrames(GetCrashThread(v.stacktrace).frames)
                    = TopFrames(GetCrashThread(raw.stacktrace).frames))
            => HashUreport(v).value = answer.value

\* The threads of raw whose crash_thread flag is there and true
Flagged == {i \in 1..Len(raw.stacktrace) : raw.stacktrace[i].crash_thread = "True"}

\* C16: _get_crash_thread returns the frames of the one thread whose
\* crash_thread flag is true, raises "No crash thread found" when no thread
\* has it (absent or false) and "Multiple crash threads found" when more
\* than one has it.
C16_SingleCrashThread ==
    answer.op = "_get_crash_thread" =>
        /\ Cardinality(Flagged) = 1 =>
               /\ answer.status = "ok"
               /\ \A i \in Flagged : answer.value = raw.stacktrace[i].frames
        /\ Cardinality(Flagged) = 0 => answer.status = "No crash thread found"
        /\ Cardinality(Flagged) > 1 => answer.status = "Multiple crash threads found"

\* The crash thread found is the second thread, the first having no flag
C16_Witness ==
    /\ answer.op = "_get_crash_thread"
    /\ answer.status = "ok"
    /\ Len(raw.stacktrace) = 2
    /\ raw.stacktrace[1].crash_thread = NoVal
    /\ answer.value = raw.stacktrace[2].frames
    /\ raw.stacktrace[1].frames # raw.stacktrace[2].frames

\* What validate_ureport can answer: True or one of its errors, never False
ValidateAnswers ==
    {"True", "CheckError", "No crash thread found",
     "Multiple crash threads found"}

\* C17: validate_ureport returns True only if the repaired report has a
\* non-empty thread list, every thread has at least one frame, every frame
\* carries address >= 0, build_id_offset >= 0 and a file_name, and exactly
\* one thread is the crash thread; otherwise it raises (no-crash-thread
\* error when all threads lack crash_thread) and it never returns False.
C17_ValidShape ==
    answer.op = "validate_ureport" =>
        /\ answer.status \in ValidateAnswers
        /\ answer.status = "True" =>
               /\ Len(raw.stacktrace) >= 1
               /\ \A i \in 1..Len(raw.stacktrace) :
                      /\ Len(raw.stacktrace[i].frames) >= 1
                      /\ \A j \in 1..Len(raw.stacktrace[i].frames) :
                             LET f == raw.stacktrace[i].frames[j]
                             IN  /\ f.address # NoInt /\ f.address >= 0
                                 /\ f.build_id_offset # NoInt
                                 /\ f.build_id_offset >= 0
                                 /\ f.file_name # NoVal
               /\ Cardinality(Flagged) = 1
        /\ (\A i \in 1..Len(raw.stacktrace) :
                raw.stacktrace[i].crash_thread = NoVal) =>
               /\ answer.status # "True"
               /\ CheckUreport(raw) => answer.status = "No crash thread found"

\* A report of two threads is accepted, one of them the crash thread
C17_Witness ==
    /\ answer.op = "validate_ureport"
    /\ answer.status = "True"
    /\ Len(raw.stacktrace) = 2
    /\ Cardinality(Flagged) = 1

\* A frame that carries a file_name and a function_name with "jit" in it,
\* in whatever case
JitCaller(f) ==
    /\ f.file_name # NoVal
    /\ f.function_name \in {"JIT_enter", "jit_call", "jit_stub"}

\* The positions of the JIT callers before position j of a thread
JitCallersBefore(frames, j) == {k \in 1..(j - 1) : JitCaller(frames[k])}

\* The most recent of them
MostRecent(ks) == CHOOSE k \in ks : \A m \in ks : m <= k

\* C18: in the repair pass of validate_ureport, within one thread, a frame
\* without file_name that comes after a frame with a file_name and a
\* function_name containing "jit" (in any case) gets the file_name of the
\* most recent such frame, and function_name "anonymous function" if its own
\* is absent or "??"; a frame with no such frame before it in its own thread
\* gets no JIT file name, whatever the other threads hold.
C18_JitFill ==
    [][answer'.op = "validate_ureport" =>
        \A i \in 1..Len(raw.stacktrace) :
            \A j \in 1..Len(raw.stacktrace[i].frames) :
                LET before == raw.stacktrace[i].frames
                    after == raw'.stacktrace[i].frames
                    jits == JitCallersBefore(before, j)
                IN  before[j].file_name = NoVal =>
                        IF jits # {}
                        THEN /\ after[j].file_name
                                    = before[MostRecent(jits)].file_name
                             /\ after[j].function_name
                                    = IF before[j].function_name \in {NoVal, "??"}
                                      THEN "anonymous function"
                                      ELSE before[j].function_name
                        ELSE after[j].file_name
                                 = IF j = Len(before)
                                   THEN "unknown filename" ELSE NoVal]_vars

\* A repaired report: in the first thread a frame after two JIT callers got
\* the file name of the second and an anonymous name; in the second thread,
\* where no JIT caller is, the frame without file_name stayed without
C18_Witness ==
    /\ answer.op = "validate_ureport"
    /\ Len(raw.stacktrace) = 2
    /\ Len(raw.stacktrace[1].frames) = 3
    /\ raw.stacktrace[1].frames[1] = VJitLow
    /\ raw.stacktrace[1].frames[2] = VJit
    /\ raw.stacktrace[1].frames[3]
           = [VAnon EXCEPT !.file_name = VJit.file_name,
                           !.function_name = "anonymous function"]
    /\ raw.stacktrace[2].frames[1] = VAnon

\* C19: after the repair pass of validate_ureport the last frame of every
\* non-empty thread has a file_name ("unknown filename" if JIT filling gave
\* it none) and a function_name ("anonymous function" if it had none),
\* whether or not a JIT frame occurred in the thread.
C19_LastFrameNamed ==
    [][answer'.op = "validate_ureport" =>
        \A i \in 1..Len(raw.stacktrace) :
            LET before == raw.stacktrace[i].frames
                after == raw'.stacktrace[i].frames
                n == Len(before)
            IN  n > 0 =>
                    /\ Len(after) = n
                    /\ after[n].file_name # NoVal
                    /\ after[n].function_name # NoVal
                    /\ (before[n].file_name = NoVal
                            /\ JitCallersBefore(before, n) = {})
                           => after[n].file_name = "unknown filename"
                    /\ before[n].function_name = NoVal
                           => after[n].function_name = "anonymous function"
                    /\ before[n].file_name # NoVal
                           => after[n].file_name = before[n].file_name]_vars

\* A repaired thread without any JIT caller whose last frame got both names
C19_Witness ==
    /\ answer.op = "validate_ureport"
    /\ \E i \in 1..Len(raw.stacktrace) :
           LET frames == raw.stacktrace[i].frames
           IN  /\ Len(frames) = 2
               /\ frames[1] = FrameMain
               /\ frames[2] = [VAnon EXCEPT !.file_name = "unknown filename",
                                            !.function_name = "anonymous function"]

\* C20: the repair pass of validate_ureport is idempotent: applied to a
\* report that has already been through it, it changes no field of any frame
\* of any thread.
C20_RepairIdempotent ==
    [][(answer.repaired /\ answer'.op = "validate_ureport") => raw' = raw]_vars

\* A report the first pass changed (a jit-named frame and a "??" frame filled
\* from the JIT caller before them) on which the pass has nothing left to do
C20_Witness ==
    /\ answer.op = "validate_ureport"
    /\ answer.repaired
    /\ \E i \in 1..Len(raw.stacktrace) :
           raw.stacktrace[i].frames
               = << VJit,
                    [VStub EXCEPT !.file_name = VJit.file_name],
                    [VUnknown EXCEPT !.file_name = VJit.file_name,
                                     !.function_name = "anonymous function"] >>
    /\ Repair(raw.stacktrace) = raw.stacktrace

\* ======================================================================
\* The frames of a stored thread that came from the raw thread
Originals(thr, t) == {k \in 1..Len(thr[t].frames) : ~thr[t].frames[k].inlined}

\* The non-inlined frames of every thread of thr carry the orders 10, 20,
\* ..., 10*n, one each, rising as the frames were created
StrideOrders(thr) ==
    \A t \in 1..Len(thr) :
        /\ {thr[t].frames[k].order : k \in Originals(thr, t)}
               = {10 * i : i \in 1..Cardinality(Originals(thr, t))}
        /\ \A k, j \in Originals(thr, t) :
               thr[t].frames[k].id < thr[t].frames[j].id
                   <=> thr[t].frames[k].order < thr[t].frames[j].order

\* Every frame of old is a frame of new, on its thread, as it was
FramesKept(old, new) ==
    /\ Len(new) >= Len(old)
    /\ \A t \in 1..Len(old) :
           /\ new[t].backtrace = old[t].backtrace
           /\ new[t].number = old[t].number
           /\ \A k \in 1..Len(old[t].frames) :
                  \E j \in 1..Len(new[t].frames) :
                      new[t].frames[j] = old[t].frames[k]

\* Stored thread th is raw thread rawthread: frame k of the one is frame k
\* of the other, not inlined, at order 10*k, at the raw frame's location
StoredAsRaw(th, rawthread, sss) ==
    /\ Len(th.frames) = Len(rawthread.frames)
    /\ \A k \in 1..Len(th.frames) :
           /\ th.frames[k].order = 10 * k
           /\ ~th.frames[k].inlined
           /\ sss[th.frames[k].symbolsource].build_id = rawthread.frames[k].build_id
           /\ sss[th.frames[k].symbolsource].path
                  = AbsPath(rawthread.frames[k].file_name)
           /\ sss[th.frames[k].symbolsource].offset
                  = rawthread.frames[k].build_id_offset

\* C21: in every state reachable by save_ureport and retrace calls the
\* non-inlined frames of each stored thread have the orders 10, 20, ...,
\* 10*n in the stack order of the raw thread: save_ureport creates them so,
\* not inlined, and no step deletes a frame or changes the order, the
\* inlined flag or the location of a frame there is.
C21_OriginalFramesKept ==
    [][/\ StrideOrders(threads')
       /\ FramesKept(threads, threads')
       /\ \A r \in 1..MaxReports, u \in Ureports, flush \in BOOLEAN :
              (SaveUreport(r, u, flush, 1) /\ Len(threads') > Len(threads)) =>
                  /\ Len(threads') = Len(threads) + Len(u.stacktrace)
                  /\ \A i \in 1..Len(u.stacktrace) :
                         StoredAsRaw(threads'[Len(threads) + i],
                                     u.stacktrace[i], ssources')]_vars

\* A thread of three raw frames has inlined frames after a retrace and has
\* been loaded anew since, the inlined frames now among the raw ones
C21_Witness ==
    \E t \in 1..Len(threads) :
        /\ Cardinality(Originals(threads, t)) = 3
        /\ Len(threads[t].frames) >= 5
        /\ threads[t].frames[1].inlined
        /\ ~threads[t].frames[Len(threads[t].frames)].inlined

\* The (name, normalized_path) identity of a stored symbol
SymbolKey(i) == <<symbols[i].name, symbols[i].normalized_path>>

\* C22: after any sequence of save_ureport and retrace calls run one after
\* another no two symbols written to the store share the same
\* (name, normalized_path): a raw frame or a resolver entry that matches a
\* symbol of the store or of the call's pending cache reuses it.
C22_SymbolsUnique ==
    /\ \A i, j \in flushed.sym : i # j => SymbolKey(i) # SymbolKey(j)
    /\ \A i \in 1..Len(ssources) :
           ssources[i].symbol \in {NoSym} \cup 1..Len(symbols)

\* ======================================================================
\* db_report_to_satyr on a stored report.  The result is [status, value]:
\* status "thread" with the GdbThread built, or the warning logged when
\* None is returned.

\* db_backtrace.threads: the threads of backtrace b, by number
BacktraceThreads(thr, b) == {t \in 1..Len(thr) : thr[t].backtrace = b}

\* _db_thread_validate: a thread of one frame whose symbol is the anonymous
\* function of an unknown file is of no use
DbThreadValidate(syms, sss, th) ==
    ~ /\ Len(th.frames) = 1
      /\ sss[th.frames[1].symbolsource].symbol # NoSym
      /\ syms[sss[th.frames[1].symbolsource].symbol].name = "anonymous function"
      /\ syms[sss[th.frames[1].symbolsource].symbol].normalized_path
             = "unknown filename"

\* The satyr.GdbFrame of one stored frame; source_file and source_line stay
\* unset (NoVal, NoLine) when the location has none
DbFrameToSatyr(syms, sss, f) ==
    [address |-> sss[f.symbolsource].offset,
     library_name |-> sss[f.symbolsource].path,
     number |-> f.order,
     function_name |-> IF sss[f.symbolsource].symbol # NoSym
                       THEN syms[sss[f.symbolsource].symbol].name
                       ELSE "??",
     source_file |-> sss[f.symbolsource].source_path,
     source_line |-> sss[f.symbolsource].line_number]

\* The frames that stacktrace.normalize() touches in a thread, at most
MaxNormalized == 2

\* A function name as normalize() has rewritten it
NormalizedName == "(normalized)"

\* What stacktrace.normalize() does to a thread of n frames.  satyr is a
\* library outside this code: it removes frames and rewrites function
\* names, and which ones is left open here.  An outcome names the frames
\* removed and the frames renamed; none of either is one of the outcomes.
NormalizeOutcomes(n) ==
    UNION {{[drop |-> d, ren |-> t \ d] : d \in SUBSET t} :
              t \in {x \in SUBSET (1..n) : Cardinality(x) <= MaxNormalized}}

\* The outcome for a thread that is not normalized
Untouched == [drop |-> {}, ren |-> {}]

\* The frames of a thread from frame k on, after normalize() with outcome o
RECURSIVE NormalizedFrames(_, _, _)
NormalizedFrames(frames, o, k) ==
    IF k > Len(frames) THEN <<>>
    ELSE (IF k \in o.drop THEN <<>>
          ELSE IF k \in o.ren
               THEN <<[frames[k] EXCEPT !.function_name = NormalizedName]>>
               ELSE <<frames[k]>>)
         \o NormalizedFrames(frames, o, k + 1)

\* _db_thread_to_satyr: for db_frame in db_thread.frames, the collection as
\* the session has it; if self.normalize, the thread is put in a
\* GdbStacktrace of its own and normalize() runs on it, with outcome o
DbThreadToSatyr(syms, sss, th, norm, o) ==
    [number |-> th.number,
     frames |-> IF norm
                THEN NormalizedFrames(
                         [k \in 1..Len(th.frames) |->
                             DbFrameToSatyr(syms, sss, th.frames[k])], o, 1)
                ELSE [k \in 1..Len(th.frames) |->
                         DbFrameToSatyr(syms, sss, th.frames[k])]]

\* A variant that takes the thread of lowest number, crash thread or not
DbFirstThread(thr, ts) == ts

\* The crash threads of the set ts of threads
DbCrashThreads(thr, ts) == {t \in ts : thr[t].crashthread}

NoStack(warning) == [status |-> warning, value |-> <<>>]

\* The thread db_report_to_satyr converts for report r: the first thread of
\* the first backtrace that is marked as crash thread, 0 if there is none
DbCrashThread(db, r) ==
    IF ReportBacktraces(db.backtraces, r) = {} THEN 0
    ELSE IF DbCrashThreads(db.threads,
                BacktraceThreads(db.threads,
                                 Min(ReportBacktraces(db.backtraces, r)))) = {}
    THEN 0
    ELSE Min(DbCrashThreads(db.threads,
                 BacktraceThreads(db.threads,
                                  Min(ReportBacktraces(db.backtraces, r)))))

\* db_report_to_satyr(db_report) for report r of the store db, with the
\* setting norm and the outcome o of normalize()
DbReportToSatyr(db, r, norm, o) ==
    IF ReportBacktraces(db.backtraces, r) = {}
    THEN NoStack("no usable backtraces")
    ELSE IF BacktraceThreads(db.threads, Min(ReportBacktraces(db.backtraces, r))) = {}
    THEN NoStack("no usable threads")
    ELSE IF DbCrashThreads(db.threads,
                BacktraceThreads(db.threads,
                                 Min(ReportBacktraces(db.backtraces, r)))) = {}
    THEN NoStack("no crash thread")
    ELSE IF DbThreadValidate(db.symbols, db.ssources,
                db.threads[Min(DbCrashThreads(db.threads,
                    BacktraceThreads(db.threads,
                        Min(ReportBacktraces(db.backtraces, r)))))])
    THEN [status |-> "thread",
          value |-> DbThreadToSatyr(db.symbols, db.ssources,
                        db.threads[Min(DbCrashThreads(db.threads,
                            BacktraceThreads(db.threads,
                                Min(ReportBacktraces(db.backtraces, r)))))],
                        norm, o)]
    ELSE NoStack("only one bad frame")

\* The threads stored for db_report_to_satyr: raw threads after the repair
\* pass of validate_ureport, SatyrBad a lone frame without file and function
\* name
SatyrBad == FixLastFrame(<<VAnon>>)

SatyrFlags == {"True", "False", NoVal}

\* Reports of no thread, one thread and two threads
SatyrReports ==
    {Ureport(<<>>)}
    \cup {Ureport(<<RawThread(c, fs)>>) :
              c \in SatyrFlags,
              fs \in {<<FrameMain>>, SatyrBad, <<FrameInit, FrameMalloc, FrameLibc>>}}
    \cup {Ureport(<<RawThread(c1, fs), RawThread(c2, <<FrameMain, FrameMalloc>>)>>) :
              c1 \in SatyrFlags, c2 \in SatyrFlags,
              fs \in {<<FrameMalloc>>, SatyrBad}}

EmptyDb ==
    [symbols |-> <<>>, ssources |-> <<>>, threads |-> <<>>,
     backtraces |-> <<>>,
     reports |-> [r \in 1..MaxReports |-> [errname |-> NoVal]],
     reportexes |-> <<>>, raised |-> FALSE, keyerror |-> FALSE]

NothingFlushed == [sym |-> {}, ss |-> {}, exe |-> {}]

\* The store after save_ureport of a report for report 1 with flush set
StoredReport(d) ==
    /\ symbols = d.symbols
    /\ ssources = d.ssources
    /\ threads = d.threads
    /\ backtraces = d.backtraces
    /\ reports = d.reports
    /\ reportexes = d.reportexes
    /\ flushed = AllFlushed(d)

InitSatyr ==
    /\ \E u \in SatyrReports :
           StoredReport(SaveUreportBody(EmptyDb, NothingFlushed, 1, u, 1))
    /\ session = [u \in Units |-> NoSession]
    /\ rt = IdleRt
    /\ staged = {}
    /\ calls = [save |-> 1, retrace |-> 0, locs |-> 0]
    /\ last = LastOf("save", 1, "ok", NoOutcome)
    /\ raw = Ureport(<<>>)
    /\ answer = NoAnswer
    /\ normalize \in BOOLEAN

\* The outcomes normalize() may have for the thread of report r
SatyrOutcomes(r) ==
    IF normalize /\ DbCrashThread(Db, r) # 0
    THEN NormalizeOutcomes(Len(threads[DbCrashThread(Db, r)].frames))
    ELSE {Untouched}

\* db_report_to_satyr(db_report) for report r, between two calls that write;
\* NextSatyr has one report converted, after at most one retrace call, of
\* one location
DoReportToSatyr(r, o) ==
    /\ Running
    /\ rt.pc = "idle"
    /\ \A u \in Units : ~session[u].open
    /\ answer' = [op |-> "db_report_to_satyr",
                  status |-> DbReportToSatyr(Db, r, normalize, o).status,
                  value |-> DbReportToSatyr(Db, r, normalize, o).value,
                  repaired |-> answer.repaired]
    /\ last' = LastOf("satyr", r, "ok", NoOutcome)
    /\ UNCHANGED <<symbols, ssources, threads, backtraces, reports,
                   reportexes, flushed, session, rt, staged, calls, raw,
                   normalize>>

NextSatyr ==
    \/ \E r \in 1..MaxReports : \E o \in SatyrOutcomes(r) :
           /\ answer.op = "none"
           /\ DoReportToSatyr(r, o)
    \/ \E items \in TaskItems(Len(ssources), 1) :
           \E dirs \in StagedChoices(items) :
               /\ answer.op = "none"
               /\ calls.retrace = 0
               /\ RetraceBegin(items, dirs)
    \/ \E o \in Outcomes : RetraceLoc(o)
    \/ RetraceCleanup
    \/ ExpireSession

SpecSatyr == InitSatyr /\ [][NextSatyr]_vars

\* The threads of the first backtrace of report r that are marked as crash
\* thread, as the store has them
MarkedThreads(r) ==
    {t \in 1..Len(threads) :
        /\ \E b \in 1..Len(backtraces) : backtraces[b].report = r
        /\ backtraces[threads[t].backtrace].report = r
        /\ \A b \in 1..Len(backtraces) :
               backtraces[b].report = r => threads[t].backtrace <= b
        /\ threads[t].crashthread}

\* Frame g of a stack is made of the stored frame f
MadeOf(g, f) ==
    /\ g.number = f.order
    /\ g.address = ssources[f.symbolsource].offset
    /\ g.library_name = ssources[f.symbolsource].path

\* The frames gs from i on are made, in order, of some of the stored frames
\* fs from k on
RECURSIVE MadeInOrder(_, _, _, _)
MadeInOrder(gs, i, fs, k) ==
    IF i > Len(gs) THEN TRUE
    ELSE IF k > Len(fs) THEN FALSE
    ELSE IF MadeOf(gs[i], fs[k]) THEN MadeInOrder(gs, i + 1, fs, k + 1)
    ELSE MadeInOrder(gs, i, fs, k + 1)

\* The stack st is built from the frames of stored thread t: one by one
\* when the thread is not normalized, and else from some of them, in their
\* order
BuiltFrom(st, t) ==
    /\ st.number = threads[t].number
    /\ MadeInOrder(st.frames, 1, threads[t].frames, 1)
    /\ ~normalize => Len(st.frames) = Len(threads[t].frames)

\* C23: db_report_to_satyr returns None, raising nothing, when the report
\* has no backtrace, when its first backtrace has no threads or when none of
\* that backtrace's threads is marked as crash thread; a stack it returns is
\* built from the frames of the first thread marked as crash thread.
C23_NoUsableStack ==
    last.op = "satyr" =>
        /\ answer.op = "db_report_to_satyr"
        /\ answer.status \in {"thread", "no usable backtraces",
                              "no usable threads", "no crash thread",
                              "only one bad frame"}
        /\ MarkedThreads(last.ss) = {} =>
               /\ answer.status # "thread"
               /\ answer.value = <<>>
        /\ answer.status = "thread" =>
               /\ MarkedThreads(last.ss) # {}
               /\ \A t \in MarkedThreads(last.ss) :
                      (\A x \in MarkedThreads(last.ss) : t <= x)
                          => BuiltFrom(answer.value, t)

\* A stack has been built for a report of two threads, the second of them
\* the crash thread; it holds a frame retrace has inserted, and normalize()
\* has removed one of the thread's frames
C23_Witness ==
    /\ last.op = "satyr"
    /\ answer.status = "thread"
    /\ Len(threads) = 2
    /\ MarkedThreads(last.ss) = {2}
    /\ normalize
    /\ Len(answer.value.frames) = Len(threads[2].frames) - 1
    /\ \E k \in 1..Len(answer.value.frames) :
           answer.value.frames[k].number % 10 # 0

\* ======================================================================
\* save_ureport called again and again, with the count of occurrences the
\* caller passes, for the reports of SaveInputs
SaveCounts == {1, 2}

NextSave ==
    \E r \in 1..MaxReports, u \in SaveInputs, flush \in BOOLEAN,
       c \in SaveCounts :
        SaveUreport(r, u, flush, c)

SpecSave == Init /\ [][NextSave]_vars

\* The executable records of report r for path
ExeRecords(exes, r, path) ==
    {i \in 1..Len(exes) : exes[i].report = r /\ exes[i].path = path}

\* The counter of (r, path) has grown by c, from 0 if it was not there,
\* and no other record has changed
CountAdded(r, path, c) ==
    IF ExeRecords(reportexes, r, path) = {}
    THEN reportexes' = Append(reportexes,
                              [report |-> r, path |-> path, count |-> c])
    ELSE /\ Len(reportexes') = Len(reportexes)
         /\ \A i \in 1..Len(reportexes) :
                reportexes'[i] =
                    IF i \in ExeRecords(reportexes, r, path)
                    THEN [reportexes[i] EXCEPT !.count = reportexes[i].count + c]
                    ELSE reportexes[i]

\* C24: save_ureport for a report that has a backtrace creates no backtrace,
\* hash, thread, frame, symbol or location; it sets the report's error name
\* and adds count to the counter of the report's executable record (created
\* with counter 0 when absent), and the report still has one backtrace.
C24_ResaveOnlyCounts ==
    [][\A r \in 1..MaxReports, u \in SaveInputs, flush \in BOOLEAN,
          c \in SaveCounts :
           (/\ SaveUreport(r, u, flush, c)
            /\ \E b \in 1..Len(backtraces) : backtraces[b].report = r)
           => /\ backtraces' = backtraces
              /\ threads' = threads
              /\ symbols' = symbols
              /\ ssources' = ssources
              /\ reports' = [reports EXCEPT ![r].errname = ToString(u.signal)]
              /\ CountAdded(r, u.executable, c)
              /\ Cardinality({b \in 1..Len(backtraces') :
                                 backtraces'[b].report = r}) = 1]_vars

\* C25: in every state reachable by save_ureport and retrace calls
\* (repeated retrace of a location and resolver answers of any length
\* included) no two frames of the same stored thread have the same order
\* value.
C25_OrdersDistinct ==
    \A t \in 1..Len(threads) :
        \A k, j \in 1..Len(threads[t].frames) :
            k # j => threads[t].frames[k].order # threads[t].frames[j].order

\* Frame a is frame b but for file_name and function_name
SameButNames(a, b) ==
    /\ a.address = b.address
    /\ a.build_id = b.build_id
    /\ a.build_id_offset = b.build_id_offset
    /\ a.fingerprint = b.fingerprint

\* C26: the repair pass of validate_ureport only fills gaps: it adds,
\* removes and reorders no thread and no frame, changes no file_name that
\* is present and no function_name but an absent one or "??", and changes a
\* function_name only on a frame it gave the JIT source file name or on the
\* last frame of a thread; a frame that is not the last, has a file_name and
\* function_name "??" stays as it is.
C26_OnlyFillsGaps ==
    [][answer'.op = "validate_ureport" =>
        /\ raw' = [raw EXCEPT !.stacktrace = raw'.stacktrace]
        /\ Len(raw'.stacktrace) = Len(raw.stacktrace)
        /\ \A i \in 1..Len(raw.stacktrace) :
               LET before == raw.stacktrace[i].frames
                   after == raw'.stacktrace[i].frames
               IN  /\ raw'.stacktrace[i].crash_thread
                          = raw.stacktrace[i].crash_thread
                   /\ Len(after) = Len(before)
                   /\ \A j \in 1..Len(before) :
                          /\ SameButNames(after[j], before[j])
                          /\ before[j].file_name # NoVal
                                 => after[j].file_name = before[j].file_name
                          /\ before[j].function_name \notin {NoVal, "??"}
                                 => after[j].function_name
                                        = before[j].function_name
                          /\ after[j].function_name # before[j].function_name
                                 => /\ after[j].function_name = "anonymous function"
                                    /\ \/ j = Len(before)
                                       \/ /\ before[j].file_name = NoVal
                                          /\ JitCallersBefore(before, j) # {}
                          /\ (/\ j < Len(before)
                              /\ before[j].file_name # NoVal
                              /\ before[j].function_name = "??")
                                 => after[j] = before[j]]_vars

\* A repaired thread: past the JIT caller the frame with a file_name and
\* "??" is as it was, the frame without file_name after it has been filled
C26_Witness ==
    /\ answer.op = "validate_ureport"
    /\ \E i \in 1..Len(raw.stacktrace) :
           raw.stacktrace[i].frames
               = << VJit, VNamedUnknown,
                    [VAnon EXCEPT !.file_name = VJit.file_name,
                                  !.function_name = "anonymous function"] >>

\* C27: when save_ureport fails with "Unable to get backtrace hash" the
\* stored state is as it was before the call: the report's error name is
\* not changed, no executable record is created and no counter is
\* incremented.
C27_FailedSaveNoEffect ==
    [][\A r \in 1..MaxReports, u \in Ureports, flush \in BOOLEAN :
           (SaveUreport(r, u, flush, 1) /\ last'.status = "raised")
           => /\ reports' = reports
              /\ reportexes' = reportexes
              /\ backtraces' = backtraces
              /\ threads' = threads
              /\ symbols' = symbols
              /\ ssources' = ssources]_vars

====
